---- MODULE Spec2Model ----
(***************************************************************************)
(* Smart EV analytics: telemetry ingestion (buffer service, queue          *)
(* processors, dual-write ingestion service) and charging sessions.        *)
(*                                                                         *)
(* The database tables are sets / sequences of rows; every SQL statement   *)
(* is one atomic step, every `await` in the TypeScript code is a point     *)
(* where other handlers may run.                                           *)
(***************************************************************************)
EXTENDS Integers, Sequences, FiniteSets, TLC

(***************************************************************************)
(* Bounds of the model                                                     *)
(***************************************************************************)
\* largest value of the wall clock / NOW() used by the session operations
MaxNow == 1
\* number of concurrently running startSession calls
MaxCallers == 2
\* longest id list handed to startBatchSessions / endBatchSessions
MaxBatchIds == 2

Vehicles == {"v1", "v2"}
Meters == {"m1", "m2"}
Callers == 1..MaxCallers

Streams == {"meter", "vehicle"}

\* largest recorded timestamp carried by a sample
MaxTs == 2
\* deliveries the broker makes
MaxDeliveries == 3
\* deliveries in the specification of the buffer service under load
MaxLoad == 4
\* writer calls that can be in progress at once (database connections in use)
MaxTx == 3
\* TelemetryBufferService.MAX_BUFFER_SIZE is 1000 in the source; the model
\* keeps the comparisons and scales the threshold
MAX_BUFFER_SIZE == 2

\* MeterTelemetryProcessor.BATCH_SIZE is 1000 in the source; scaled like
\* MAX_BUFFER_SIZE
BATCH_SIZE == 2
\* Date.now() advances in steps of TimeStep milliseconds up to MaxDateNow
TimeStep == 5000
MaxDateNow == 10000
FALLBACK_INTERVAL_MS == 10000

\* in the writer specification: the longest batch handed to the writer, the
\* number of samples handed to it in all, and the calls running at once
MaxBatchLen == 2
MaxSamples == 3
MaxWriterCalls == 2
\* the time of the performance query; its window is the WindowLength before
\* it (24 hours in the code, scaled down)
AnalyticsNow == 3
WindowLength == 2
\* rows of meter history in the analytics specification
MaxHistory == 2
\* largest limit passed to getAllVehicleStates
MaxLimit == 2

TxIds == 1..MaxTx
KwhValues == {10, 20}

\* SQL NULL in a timestamp column
NULL == -1

VARIABLES
    vehicle_meter_mapping,  \* table: set of session rows
    startCalls,             \* startSession calls between their SELECT and their INSERT
    sessionResult,          \* outcome of the session operation that completed last
    now,                    \* wall clock, NOW()
    device_state,           \* hot tables: "meter" -> meter_state, "vehicle" -> vehicle_state
    telemetry,              \* history tables: meter_telemetry, vehicle_telemetry
    tx,                     \* writer calls (IngestionService) in progress, one per slot
    buffer,                 \* TelemetryBufferService.meterBuffer / vehicleBuffer
    isFlushing,             \* TelemetryBufferService.isFlushing
    isShuttingDown,         \* TelemetryBufferService.isShuttingDown
    flushTimer,             \* TelemetryBufferService.flushTimer is armed
    delivered,              \* samples handed to the pipeline so far
    accepted,               \* samples the batcher accepted so far, per stream
    handlerReturn,          \* how the MQTT handler that ended last ended
    queue,                  \* Bull queues telemetry-meter / telemetry-vehicle: waiting jobs
    isProcessing,           \* MeterTelemetryProcessor / VehicleTelemetryProcessor.isProcessing
    lastProcessTime,        \* ....lastProcessTime
    processingTimer,        \* ....processingTimer is armed
    tickPc,                 \* interval callback: "idle", or "count" (awaiting getWaitingCount)
    proc,                   \* processBatch invocations, per stream and caller
    dateNow,                \* Date.now()
    metrics,                \* outcome of the getVehiclePerformance call that ended last
    vehicleStates           \* outcome of the getAllVehicleStates call that ended last

sessionVars == <<vehicle_meter_mapping, startCalls, sessionResult, now>>
dbVars == <<device_state, telemetry, tx>>
bufferVars == <<buffer, isFlushing, isShuttingDown, flushTimer>>
intakeVars == <<delivered, accepted, handlerReturn>>
queueVars == <<queue, isProcessing, lastProcessTime, processingTimer, tickPc, proc, dateNow>>
analyticsVars == <<metrics, vehicleStates>>

\* what the operations of one component leave alone
sessionFrame == <<dbVars, bufferVars, intakeVars, queueVars, analyticsVars>>
writerFrame == <<sessionVars, bufferVars, intakeVars, queueVars, analyticsVars>>
bufferFrame == <<sessionVars, queueVars, analyticsVars>>
queueFrame == <<sessionVars, bufferVars, analyticsVars>>

(***************************************************************************)
(* Charging sessions: vehicle_meter_mapping and ChargingSessionService     *)
(***************************************************************************)
IdLists(S) == UNION {[1..n -> S] : n \in 0..MaxBatchIds}

\* the id arrays a caller may pass to the batch operations
VehicleIdLists == IdLists(Vehicles)
MeterIdLists == IdLists(Meters)

Min(a, b) == IF a < b THEN a ELSE b

\* rows selected by  WHERE vehicle_id = v AND is_active = TRUE
ActiveRows(table, v) == {r \in table : r.vehicle_id = v /\ r.is_active}

\* PRIMARY KEY (vehicle_id, meter_id)
HasKey(table, v, m) == \E r \in table : r.vehicle_id = v /\ r.meter_id = m

SessionRow(v, m, t) ==
    [vehicle_id |-> v, meter_id |-> m, mapped_at |-> t,
     unmapped_at |-> NULL, is_active |-> TRUE]

\* UPDATE ... SET is_active = FALSE, unmapped_at = NOW() WHERE vehicle_id IN vs AND is_active
CloseRows(table, vs, t) ==
    {IF r.vehicle_id \in vs /\ r.is_active
        THEN [r EXCEPT !.is_active = FALSE, !.unmapped_at = t]
        ELSE r : r \in table}

IdleCall == [pc |-> "idle", vehicleId |-> "", meterId |-> ""]

\* (startSession without the check for an active session)
StartSessionCheck_NoCheck(c, v, m) ==
    /\ startCalls[c].pc = "idle"
    /\ startCalls' = [startCalls EXCEPT ![c] =
                         [pc |-> "insert", vehicleId |-> v, meterId |-> m]]
    /\ UNCHANGED <<sessionResult, vehicle_meter_mapping, now, sessionFrame>>

\* startSession, first statement: the SELECT that looks for an active session
StartSessionCheck(c, v, m) ==
    /\ startCalls[c].pc = "idle"
    /\ IF ActiveRows(vehicle_meter_mapping, v) # {}
          THEN /\ sessionResult' = [op |-> "startSession", result |-> "conflict", count |-> 0]
               /\ UNCHANGED startCalls
          ELSE /\ startCalls' = [startCalls EXCEPT ![c] =
                                    [pc |-> "insert", vehicleId |-> v, meterId |-> m]]
               /\ UNCHANGED sessionResult
    /\ UNCHANGED <<vehicle_meter_mapping, now, sessionFrame>>

\* startSession, second statement: the INSERT
StartSessionInsert(c) ==
    LET v == startCalls[c].vehicleId
        m == startCalls[c].meterId
    IN  /\ startCalls[c].pc = "insert"
        /\ startCalls' = [startCalls EXCEPT ![c] = IdleCall]
        /\ IF HasKey(vehicle_meter_mapping, v, m)
              THEN /\ sessionResult' = [op |-> "startSession", result |-> "duplicate_key", count |-> 0]
                   /\ UNCHANGED vehicle_meter_mapping
              ELSE /\ vehicle_meter_mapping' =
                          vehicle_meter_mapping \cup {SessionRow(v, m, now)}
                   /\ sessionResult' = [op |-> "startSession", result |-> "ok", count |-> 1]
        /\ UNCHANGED <<now, sessionFrame>>

\* (endSession without `vehicle_id = $1` in its WHERE clause)
EndSession_AnyVehicle(v) ==
    /\ IF ActiveRows(vehicle_meter_mapping, v) = {}
          THEN /\ sessionResult' = [op |-> "endSession", result |-> "not_found", count |-> 0]
               /\ UNCHANGED vehicle_meter_mapping
          ELSE /\ vehicle_meter_mapping' = CloseRows(vehicle_meter_mapping, Vehicles, now)
               /\ sessionResult' = [op |-> "endSession", result |-> "ok",
                                    count |-> Cardinality(ActiveRows(vehicle_meter_mapping, v))]
    /\ UNCHANGED <<startCalls, now, sessionFrame>>

\* (endSession without `AND is_active = TRUE` in its WHERE clause)
EndSession_NoActiveFilter(v) ==
    LET rows == {r \in vehicle_meter_mapping : r.vehicle_id = v}
    IN  /\ IF rows = {}
              THEN /\ sessionResult' = [op |-> "endSession", result |-> "not_found", count |-> 0]
                   /\ UNCHANGED vehicle_meter_mapping
              ELSE /\ vehicle_meter_mapping' =
                          (vehicle_meter_mapping \ rows) \cup
                             {[r EXCEPT !.is_active = FALSE, !.unmapped_at = now] : r \in rows}
                   /\ sessionResult' = [op |-> "endSession", result |-> "ok",
                                        count |-> Cardinality(rows)]
        /\ UNCHANGED <<startCalls, now, sessionFrame>>

\* endSession: one UPDATE ... RETURNING
EndSession(v) ==
    /\ IF ActiveRows(vehicle_meter_mapping, v) = {}
          THEN /\ sessionResult' = [op |-> "endSession", result |-> "not_found", count |-> 0]
               /\ UNCHANGED vehicle_meter_mapping
          ELSE /\ vehicle_meter_mapping' = CloseRows(vehicle_meter_mapping, {v}, now)
               /\ sessionResult' = [op |-> "endSession", result |-> "ok",
                                    count |-> Cardinality(ActiveRows(vehicle_meter_mapping, v))]
    /\ UNCHANGED <<startCalls, now, sessionFrame>>

\* (the INSERT of startBatchSessions with ON CONFLICT DO NOTHING)
StartBatchSessions_SkipsConflicts(vehicleIds, meterIds) ==
    LET count == Min(Len(vehicleIds), Len(meterIds))
        keys == {<<vehicleIds[i], meterIds[i]>> : i \in 1..count}
        fresh == {k \in keys : ~HasKey(vehicle_meter_mapping, k[1], k[2])}
    IN  /\ vehicle_meter_mapping' = vehicle_meter_mapping \cup
               {SessionRow(k[1], k[2], now) : k \in fresh}
        /\ sessionResult' = [op |-> "startBatchSessions", result |-> "ok", count |-> count]
        /\ UNCHANGED <<startCalls, now, sessionFrame>>

\* startBatchSessions: one INSERT ... SELECT FROM UNNEST, no check for active sessions
StartBatchSessions(vehicleIds, meterIds) ==
    LET count == Min(Len(vehicleIds), Len(meterIds))
        keys == {<<vehicleIds[i], meterIds[i]>> : i \in 1..count}
        dup == \/ Cardinality(keys) < count
               \/ \E k \in keys : HasKey(vehicle_meter_mapping, k[1], k[2])
    IN  /\ IF dup
              THEN /\ sessionResult' = [op |-> "startBatchSessions", result |-> "duplicate_key", count |-> 0]
                   /\ UNCHANGED vehicle_meter_mapping
              ELSE /\ vehicle_meter_mapping' = vehicle_meter_mapping \cup
                          {SessionRow(k[1], k[2], now) : k \in keys}
                   /\ sessionResult' = [op |-> "startBatchSessions", result |-> "ok", count |-> count]
        /\ UNCHANGED <<startCalls, now, sessionFrame>>

\* (endBatchSessions returning the number of ids instead of result.rowCount)
EndBatchSessions_CountsIds(vehicleIds) ==
    LET vs == {vehicleIds[i] : i \in 1..Len(vehicleIds)}
    IN  /\ vehicle_meter_mapping' = CloseRows(vehicle_meter_mapping, vs, now)
        /\ sessionResult' = [op |-> "endBatchSessions", result |-> "ok",
                             count |-> Len(vehicleIds)]
        /\ UNCHANGED <<startCalls, now, sessionFrame>>

\* endBatchSessions: one UPDATE ... WHERE vehicle_id = ANY(ids) AND is_active
EndBatchSessions(vehicleIds) ==
    LET vs == {vehicleIds[i] : i \in 1..Len(vehicleIds)}
        closed == UNION {ActiveRows(vehicle_meter_mapping, v) : v \in vs}
    IN  /\ vehicle_meter_mapping' = CloseRows(vehicle_meter_mapping, vs, now)
        /\ sessionResult' = [op |-> "endBatchSessions", result |-> "ok", count |-> Cardinality(closed)]
        /\ UNCHANGED <<startCalls, now, sessionFrame>>

\* (the SELECT of getActiveSession without `AND is_active = TRUE`)
SelectActiveSession_AnyRow(table, vehicleId) == {r \in table : r.vehicle_id = vehicleId}

\* SELECT vehicle_id, meter_id, mapped_at FROM vehicle_meter_mapping
\* WHERE vehicle_id = $1 AND is_active = TRUE
SelectActiveSession(table, vehicleId) == ActiveRows(table, vehicleId)

\* { vehicleId: row.vehicle_id, meterId: row.meter_id, mappedAt: row.mapped_at }
ActiveSession(row) ==
    [vehicleId |-> row.vehicle_id, meterId |-> row.meter_id, mappedAt |-> row.mapped_at]

\* getActiveSession(vehicleId): null (no session) when the SELECT finds no
\* row, else the session of result.rows[0]; the query has no ORDER BY, so
\* rows[0] is any of the rows found
GetActiveSession(vehicleId) ==
    LET rows == SelectActiveSession(vehicle_meter_mapping, vehicleId)
    IN  /\ IF rows = {}
              THEN sessionResult' = [op |-> "getActiveSession", result |-> "null",
                                     count |-> 0, vehicleId |-> vehicleId, session |-> {}]
              ELSE \E row \in rows :
                      sessionResult' = [op |-> "getActiveSession", result |-> "ok",
                                        count |-> 0, vehicleId |-> vehicleId,
                                        session |-> {ActiveSession(row)}]
        /\ UNCHANGED <<vehicle_meter_mapping, startCalls, now, sessionFrame>>

\* the wall clock advances
ClockTick ==
    /\ now < MaxNow
    /\ now' = now + 1
    /\ UNCHANGED <<vehicle_meter_mapping, startCalls, sessionResult, sessionFrame>>

SessionInit ==
    /\ vehicle_meter_mapping = {}
    /\ startCalls = [c \in Callers |-> IdleCall]
    /\ sessionResult = [op |-> "none", result |-> "ok", count |-> 0]
    /\ now = 0

(***************************************************************************)
(* Telemetry samples and table rows                                        *)
(***************************************************************************)
MeterTelemetryDto ==
    [meterId : Meters, kwhConsumedAc : KwhValues, voltage : {230}, timestamp : 1..MaxTs]

VehicleTelemetryDto ==
    [vehicleId : Vehicles, soc : {50}, kwhDeliveredDc : KwhValues,
     batteryTemp : {25}, timestamp : 1..MaxTs]

Dtos(s) == IF s = "meter" THEN MeterTelemetryDto ELSE VehicleTelemetryDto

\* the samples the broker delivers in the pipeline specifications
DeliveredDtos(s) ==
    IF s = "meter"
       THEN {d \in MeterTelemetryDto : d.meterId = "m1" /\ d.kwhConsumedAc = 10 * d.timestamp}
       ELSE {d \in VehicleTelemetryDto :
                d.vehicleId = "v1" /\ d.kwhDeliveredDc = 10 /\ d.timestamp = 1}

\* payloads the validation has to reject: a value out of range, an id that
\* is no UUID, a missing field, a timestamp that is no ISO 8601 string (0)
InvalidPayloads(s) ==
    IF s = "meter"
       THEN {[meterId |-> "m1", kwhConsumedAc |-> 10, voltage |-> 501, timestamp |-> 1],
             [meterId |-> "m1", kwhConsumedAc |-> 0 - 10, voltage |-> 230, timestamp |-> 1],
             [meterId |-> "m1", kwhConsumedAc |-> 10, voltage |-> 230, timestamp |-> 0],
             [meterId |-> "meter-7", kwhConsumedAc |-> 10, voltage |-> 230, timestamp |-> 1],
             [meterId |-> "m1", kwhConsumedAc |-> 10, timestamp |-> 1]}
       ELSE {[vehicleId |-> "v1", soc |-> 101, kwhDeliveredDc |-> 10, batteryTemp |-> 25,
              timestamp |-> 1],
             [vehicleId |-> "v1", soc |-> 0 - 1, kwhDeliveredDc |-> 10, batteryTemp |-> 25,
              timestamp |-> 1],
             [vehicleId |-> "v1", soc |-> 50, kwhDeliveredDc |-> 10, batteryTemp |-> 81,
              timestamp |-> 1],
             [vehicleId |-> "v1", soc |-> 50, kwhDeliveredDc |-> 10, batteryTemp |-> 0 - 41,
              timestamp |-> 1],
             [vehicleId |-> "v1", soc |-> 50, kwhDeliveredDc |-> 0 - 10, batteryTemp |-> 25,
              timestamp |-> 1],
             [vehicleId |-> "v1", kwhDeliveredDc |-> 10, batteryTemp |-> 25, timestamp |-> 1]}

\* what the broker may deliver on the topic of a stream
Payloads(s) == DeliveredDtos(s) \cup InvalidPayloads(s)

\* @IsNumber() @Min(lo) @Max(hi) on property f; hi = NULL: no @Max
NumberErrors(data, f, lo, hi) ==
    IF /\ f \in DOMAIN data
       /\ data[f] >= lo
       /\ (hi = NULL \/ data[f] <= hi)
       THEN {} ELSE {f}

\* @IsUUID() on property f
UuidErrors(data, f, ids) == IF f \in DOMAIN data /\ data[f] \in ids THEN {} ELSE {f}

\* @IsISO8601() on timestamp
TimestampErrors(data) ==
    IF "timestamp" \in DOMAIN data /\ data.timestamp >= 1 THEN {} ELSE {"timestamp"}

\* (the DTO without @Max(500) on voltage)
validate_NoVoltageMax(s, data) ==
    IF s = "meter"
       THEN UuidErrors(data, "meterId", Meters)
            \cup NumberErrors(data, "kwhConsumedAc", 0, NULL)
            \cup NumberErrors(data, "voltage", 0, NULL)
            \cup TimestampErrors(data)
       ELSE UuidErrors(data, "vehicleId", Vehicles)
            \cup NumberErrors(data, "soc", 0, 100)
            \cup NumberErrors(data, "kwhDeliveredDc", 0, NULL)
            \cup NumberErrors(data, "batteryTemp", 0 - 40, 80)
            \cup TimestampErrors(data)

\* validate(plainToInstance(Dto, data)): the properties whose decorators fail
validate(s, data) ==
    IF s = "meter"
       THEN UuidErrors(data, "meterId", Meters)
            \cup NumberErrors(data, "kwhConsumedAc", 0, NULL)
            \cup NumberErrors(data, "voltage", 0, 500)
            \cup TimestampErrors(data)
       ELSE UuidErrors(data, "vehicleId", Vehicles)
            \cup NumberErrors(data, "soc", 0, 100)
            \cup NumberErrors(data, "kwhDeliveredDc", 0, NULL)
            \cup NumberErrors(data, "batteryTemp", 0 - 40, 80)
            \cup TimestampErrors(data)

\* the ways handleMeterTelemetry / handleVehicleTelemetry end: each one logs
\* and returns, so the promise of the handler resolves
Buffered == [log |-> "buffered", promise |-> "resolved"]
Invalid == [log |-> "invalid", promise |-> "resolved"]
Caught == [log |-> "failed", promise |-> "resolved"]

\* record.meterId / record.vehicleId
DeviceId(s, d) == IF s = "meter" THEN d.meterId ELSE d.vehicleId

\* the row the upsert writes for one sample (last_updated = payload timestamp)
StateRow(s, d) ==
    IF s = "meter"
       THEN [meter_id |-> d.meterId, kwh_consumed_ac |-> d.kwhConsumedAc,
             voltage |-> d.voltage, last_updated |-> d.timestamp]
       ELSE [vehicle_id |-> d.vehicleId, soc |-> d.soc,
             kwh_delivered_dc |-> d.kwhDeliveredDc, battery_temp |-> d.batteryTemp,
             last_updated |-> d.timestamp]

\* the row the history insert writes for one sample
TelemetryRow(s, d) ==
    IF s = "meter"
       THEN [meter_id |-> d.meterId, kwh_consumed_ac |-> d.kwhConsumedAc,
             voltage |-> d.voltage, recorded_at |-> d.timestamp]
       ELSE [vehicle_id |-> d.vehicleId, soc |-> d.soc,
             kwh_delivered_dc |-> d.kwhDeliveredDc, battery_temp |-> d.batteryTemp,
             recorded_at |-> d.timestamp]

\* primary key of a hot-state row, device column of a history row
RowKey(s, r) == IF s = "meter" THEN r.meter_id ELSE r.vehicle_id

meter_state == device_state["meter"]
vehicle_state == device_state["vehicle"]
meter_telemetry == telemetry["meter"]
vehicle_telemetry == telemetry["vehicle"]

(***************************************************************************)
(* IngestionService: the dual write                                        *)
(***************************************************************************)
DeviceIds(s, dataArray) == {DeviceId(s, dataArray[i]) : i \in 1..Len(dataArray)}

\* const deduped = new Map(); for (const record of dataArray) deduped.set(id, record)
\* : each id maps to the record that was set last
Deduped(s, dataArray) ==
    [id \in DeviceIds(s, dataArray) |->
        dataArray[CHOOSE i \in 1..Len(dataArray) :
                    /\ DeviceId(s, dataArray[i]) = id
                    /\ \A j \in (i + 1)..Len(dataArray) : DeviceId(s, dataArray[j]) # id]]

\* Array.from(deduped.values())
UniqueData(s, dataArray) ==
    {Deduped(s, dataArray)[id] : id \in DeviceIds(s, dataArray)}

\* (an INSERT that adds its rows beside the rows the table holds)
Upserted_NoConflict(s, table, dataArray) ==
    table \cup {StateRow(s, d) : d \in UniqueData(s, dataArray)}

\* INSERT INTO <state table> ... ON CONFLICT (id) DO UPDATE SET every column = EXCLUDED
Upserted(s, table, dataArray) ==
    LET rows == {StateRow(s, d) : d \in UniqueData(s, dataArray)}
    IN  {r \in table : RowKey(s, r) \notin DeviceIds(s, dataArray)} \cup rows

\* (the history INSERT given the deduplicated records instead of all of them)
Appended_UniqueOnly(s, history, dataArray) ==
    LET kept == {i \in 1..Len(dataArray) :
                    \A j \in (i + 1)..Len(dataArray) :
                        DeviceId(s, dataArray[j]) # DeviceId(s, dataArray[i])}
    IN  history \o [n \in 1..Cardinality(kept) |->
                      TelemetryRow(s, dataArray[CHOOSE i \in kept :
                                          Cardinality({j \in kept : j < i}) = n - 1])]

\* (a history write that also overwrites the rows the table holds for the
\* devices of the batch)
Appended_Overwriting(s, history, dataArray) ==
    [k \in 1..Len(history) |->
        IF RowKey(s, history[k]) \in DeviceIds(s, dataArray)
           THEN TelemetryRow(s, Deduped(s, dataArray)[RowKey(s, history[k])])
           ELSE history[k]]
       \o [i \in 1..Len(dataArray) |-> TelemetryRow(s, dataArray[i])]

\* INSERT INTO <history table> ... UNNEST(all records)
Appended(s, history, dataArray) ==
    history \o [i \in 1..Len(dataArray) |-> TelemetryRow(s, dataArray[i])]

\* (no BEGIN: every statement commits on its own)
TxBegin_Autocommit == FALSE

\* client.query('BEGIN'): the statements that follow belong to one transaction
TxBegin == TRUE

IdleTx ==
    [st |-> "idle", owner |-> "", stream |-> "", dataArray |-> <<>>, inTx |-> FALSE,
     jobs |-> {}, dedup |-> TRUE, client |-> FALSE]

\* a writer call up to its first await (pool.connect())
StartedTx(owner, s, dataArray, jobs) ==
    [st |-> "connect", owner |-> owner, stream |-> s, dataArray |-> dataArray,
     inTx |-> FALSE, jobs |-> jobs, dedup |-> TRUE, client |-> FALSE]

FreeSlots == {i \in TxIds : tx[i].st = "idle"}
LowestFree(free) == CHOOSE i \in free : \A j \in free : i <= j

InFlight(i) == tx[i].st \in {"connect", "begun", "upserted", "inserted"}

\* the upsert waits while another open transaction holds the row lock of one of its keys
RowLocked(i) ==
    \E j \in TxIds \ {i} :
        /\ tx[j].st \in {"upserted", "inserted"}
        /\ tx[j].stream = tx[i].stream
        /\ DeviceIds(tx[j].stream, tx[j].dataArray)
              \cap DeviceIds(tx[i].stream, tx[i].dataArray) # {}

\* the upsert of the variant without the dedup step is given the same key
\* twice: PostgreSQL rejects the statement ("ON CONFLICT DO UPDATE command
\* cannot affect row a second time")
AffectsRowTwice(i) ==
    /\ ~tx[i].dedup
    /\ Cardinality(DeviceIds(tx[i].stream, tx[i].dataArray)) < Len(tx[i].dataArray)

\* finally { client.release() }: whether the call still holds its connection
\* once it has left the try block, after a ROLLBACK that failed or did not
Release(rollbackFailed) == FALSE

\* pool.connect() and BEGIN
WriterBegin(i) ==
    /\ tx[i].st = "connect"
    /\ tx' = [tx EXCEPT ![i].st = "begun", ![i].inTx = TxBegin, ![i].client = TRUE]
    /\ UNCHANGED <<device_state, telemetry, writerFrame>>

\* the hot-store statement
WriterUpsert(i) ==
    LET s == tx[i].stream
    IN  /\ tx[i].st = "begun"
        /\ ~RowLocked(i)
        /\ ~AffectsRowTwice(i)
        /\ tx' = [tx EXCEPT ![i].st = "upserted"]
        /\ device_state' =
              IF tx[i].inTx THEN device_state
              ELSE [device_state EXCEPT ![s] = Upserted(s, @, tx[i].dataArray)]
        /\ UNCHANGED <<telemetry, writerFrame>>

\* the cold-store statement
WriterInsert(i) ==
    LET s == tx[i].stream
    IN  /\ tx[i].st = "upserted"
        /\ tx' = [tx EXCEPT ![i].st = "inserted"]
        /\ telemetry' =
              IF tx[i].inTx THEN telemetry
              ELSE [telemetry EXCEPT ![s] = Appended(s, @, tx[i].dataArray)]
        /\ UNCHANGED <<device_state, writerFrame>>

\* COMMIT: the statements of the transaction become visible together
WriterCommit(i) ==
    LET s == tx[i].stream
    IN  /\ tx[i].st = "inserted"
        /\ tx' = [tx EXCEPT ![i].st = "committed", ![i].client = Release(FALSE)]
        /\ device_state' =
              IF tx[i].inTx
                 THEN [device_state EXCEPT ![s] = Upserted(s, @, tx[i].dataArray)]
                 ELSE device_state
        /\ telemetry' =
              IF tx[i].inTx
                 THEN [telemetry EXCEPT ![s] = Appended(s, @, tx[i].dataArray)]
                 ELSE telemetry
        /\ UNCHANGED writerFrame

\* connect or a statement fails (database unavailable, timeout, constraint):
\* catch: ROLLBACK discards what the open transaction did (the ROLLBACK may
\* fail as well); throw error. A failed pool.connect() throws before the try.
WriterFails(i) ==
    /\ InFlight(i)
    /\ \E rollbackFailed \in BOOLEAN :
          tx' = [tx EXCEPT ![i].st = "failed",
                           ![i].client = IF tx[i].st = "connect" THEN FALSE
                                         ELSE Release(rollbackFailed)]
    /\ UNCHANGED <<device_state, telemetry, writerFrame>>

\* the samples handed to the writer in the writer specification: every
\* combination of timestamp and value for one meter, one sample of a second
\* meter, two samples of a vehicle
WriterDtos(s) ==
    IF s = "meter"
       THEN {d \in MeterTelemetryDto :
                d.meterId = "m1" \/ (d.kwhConsumedAc = 10 /\ d.timestamp = 1)}
       ELSE {d \in VehicleTelemetryDto : d.vehicleId = "v1" /\ d.kwhDeliveredDc = 10}

\* the arrays a caller may pass to ingestMeterDataBatch / ingestVehicleDataBatch
Batches(s) == UNION {[1..n -> WriterDtos(s)] : n \in 1..MaxBatchLen}

\* a call of ingestMeterDataBatch / ingestVehicleDataBatch, up to pool.connect()
IngestDataBatch(s, dataArray) ==
    /\ Len(dataArray) # 0
    /\ Cardinality(TxIds \ FreeSlots) < MaxWriterCalls
    /\ delivered + Len(dataArray) <= MaxSamples
    /\ delivered' = delivered + Len(dataArray)
    /\ tx' = [tx EXCEPT ![LowestFree(FreeSlots)] = StartedTx("batch", s, dataArray, {})]
    /\ UNCHANGED <<device_state, telemetry, sessionVars, bufferVars, queueVars, accepted,
                   handlerReturn, analyticsVars>>

\* the same call in the variant of the service without the dedup step
IngestDataBatchNoDedup(s, dataArray) ==
    /\ Len(dataArray) # 0
    /\ Cardinality(TxIds \ FreeSlots) < MaxWriterCalls
    /\ delivered + Len(dataArray) <= MaxSamples
    /\ delivered' = delivered + Len(dataArray)
    /\ tx' = [tx EXCEPT ![LowestFree(FreeSlots)] =
                 [StartedTx("batch", s, dataArray, {}) EXCEPT !.dedup = FALSE]]
    /\ UNCHANGED <<device_state, telemetry, sessionVars, bufferVars, queueVars, accepted,
                   handlerReturn, analyticsVars>>

\* a call of ingestMeterData / ingestVehicleData (one sample, no dedup step)
IngestData(s, data) ==
    /\ Cardinality(TxIds \ FreeSlots) < MaxWriterCalls
    /\ delivered + 1 <= MaxSamples
    /\ delivered' = delivered + 1
    /\ tx' = [tx EXCEPT ![LowestFree(FreeSlots)] = StartedTx("single", s, <<data>>, {})]
    /\ UNCHANGED <<device_state, telemetry, sessionVars, bufferVars, queueVars, accepted,
                   handlerReturn, analyticsVars>>

\* the call returns to, or throws into, its caller
IngestReturns(i) ==
    /\ tx[i].owner \in {"batch", "single"}
    /\ tx[i].st \in {"committed", "failed"}
    /\ tx' = [tx EXCEPT ![i] = IdleTx]
    /\ UNCHANGED <<device_state, telemetry, writerFrame>>

DbInit ==
    /\ device_state = [s \in Streams |-> {}]
    /\ telemetry = [s \in Streams |-> <<>>]
    /\ tx = [i \in TxIds |-> IdleTx]

(***************************************************************************)
(* TelemetryBufferService                                                  *)
(***************************************************************************)
\* flush() runs past its two early returns
CanFlush(buf) == ~isFlushing /\ \E s \in Streams : buf[s] # <<>>

\* flush() from `this.isFlushing = true` to `await Promise.all(promises)`:
\* swap the buffers and start one writer call per non-empty batch
FlushStart(buf) ==
    LET batches == {s \in Streams : buf[s] # <<>>}
        first == LowestFree(FreeSlots)
        second == LowestFree(FreeSlots \ {first})
        slot == [s \in Streams |->
                    IF s = "meter" \/ "meter" \notin batches THEN first ELSE second]
    IN  /\ Cardinality(FreeSlots) >= Cardinality(batches)
        /\ isFlushing' = TRUE
        /\ buffer' = [s \in Streams |-> <<>>]
        /\ tx' = [i \in TxIds |->
                    IF \E s \in batches : slot[s] = i
                       THEN StartedTx("flush", CHOOSE s \in batches : slot[s] = i,
                                      buf[CHOOSE s \in batches : slot[s] = i], {})
                       ELSE tx[i]]

\* setInterval(() => this.flush(), FLUSH_INTERVAL_MS)
FlushTimerFires ==
    /\ flushTimer
    /\ CanFlush(buffer)
    /\ FlushStart(buffer)
    /\ UNCHANGED <<bufferFrame, device_state, telemetry, isShuttingDown, flushTimer,
                   intakeVars>>

\* addMeterData / addVehicleData while the service is running
AddData(s, d) ==
    LET buf == [buffer EXCEPT ![s] = Append(@, d)]
    IN  /\ validate(s, d) = {}
        /\ ~isShuttingDown
        /\ delivered' = delivered + 1
        /\ accepted' = [accepted EXCEPT ![s] = @ + 1]
        /\ handlerReturn' = Buffered
        /\ IF Len(buf[s]) >= MAX_BUFFER_SIZE /\ ~isFlushing
              THEN FlushStart(buf)
              ELSE /\ buffer' = buf
                   /\ UNCHANGED <<tx, isFlushing>>
        /\ UNCHANGED <<bufferFrame, device_state, telemetry, isShuttingDown, flushTimer>>

\* addMeterData / addVehicleData while shutting down: a direct batch of one
AddDataShuttingDown(s, d) ==
    /\ validate(s, d) = {}
    /\ isShuttingDown
    /\ FreeSlots # {}
    /\ delivered' = delivered + 1
    /\ tx' = [tx EXCEPT ![LowestFree(FreeSlots)] = StartedTx("direct", s, <<d>>, {})]
    /\ UNCHANGED <<bufferFrame, device_state, telemetry, bufferVars, accepted, handlerReturn>>

\* the handler's validation finds errors: log them and return
HandleInvalidTelemetry(s, data) ==
    /\ validate(s, data) # {}
    /\ handlerReturn' = Invalid
    /\ UNCHANGED <<bufferFrame, dbVars, bufferVars, delivered, accepted>>

\* the direct write of a shutting-down add returns, or throws into the
\* handler's catch
DirectEnd(i) ==
    /\ tx[i].owner = "direct"
    /\ tx[i].st \in {"committed", "failed"}
    /\ accepted' = [accepted EXCEPT ![tx[i].stream] =
                       IF tx[i].st = "committed" THEN @ + 1 ELSE @]
    /\ handlerReturn' = IF tx[i].st = "committed" THEN Buffered ELSE Caught
    /\ tx' = [tx EXCEPT ![i] = IdleTx]
    /\ UNCHANGED <<bufferFrame, device_state, telemetry, bufferVars, delivered>>

FlushSlots == {i \in TxIds : tx[i].owner = "flush"}

\* flush() after `await Promise.all(promises)`: all writer calls resolved, or
\* the first one rejected (catch logs the error); finally isFlushing = false.
\* A writer call that is still running when Promise.all rejects keeps running.
FlushEnd ==
    /\ isFlushing
    /\ \/ \A i \in FlushSlots : tx[i].st = "committed"
       \/ \E i \in FlushSlots : tx[i].st = "failed"
    /\ isFlushing' = FALSE
    /\ tx' = [i \in TxIds |->
                IF i \notin FlushSlots THEN tx[i]
                ELSE IF InFlight(i) THEN [tx[i] EXCEPT !.owner = "orphan"]
                ELSE IdleTx]
    /\ UNCHANGED <<bufferFrame, device_state, telemetry, buffer, isShuttingDown, flushTimer,
                   intakeVars>>

\* a writer call nobody awaits any more settles
OrphanEnd(i) ==
    /\ tx[i].owner = "orphan"
    /\ tx[i].st \in {"committed", "failed"}
    /\ tx' = [tx EXCEPT ![i] = IdleTx]
    /\ UNCHANGED <<bufferFrame, device_state, telemetry, bufferVars, intakeVars>>

\* TelemetryBufferService.onModuleDestroy
BufferOnModuleDestroy ==
    /\ ~isShuttingDown
    /\ isShuttingDown' = TRUE
    /\ flushTimer' = FALSE
    /\ IF CanFlush(buffer)
          THEN FlushStart(buffer)
          ELSE UNCHANGED <<buffer, isFlushing, tx>>
    /\ UNCHANGED <<bufferFrame, device_state, telemetry, intakeVars>>

\* the process dies and is started again: memory is lost, open transactions
\* are aborted by the database, committed rows stay
Crash ==
    /\ buffer' = [s \in Streams |-> <<>>]
    /\ isFlushing' = FALSE
    /\ isShuttingDown' = FALSE
    /\ flushTimer' = TRUE
    /\ tx' = [i \in TxIds |-> IdleTx]
    /\ UNCHANGED <<bufferFrame, device_state, telemetry, intakeVars>>

BufferInit ==
    /\ buffer = [s \in Streams |-> <<>>]
    /\ isFlushing = FALSE
    /\ isShuttingDown = FALSE
    /\ flushTimer = TRUE

IntakeInit ==
    /\ delivered = 0
    /\ accepted = [s \in Streams |-> 0]
    /\ handlerReturn = [log |-> "", promise |-> "none"]

(***************************************************************************)
(* MeterTelemetryProcessor / VehicleTelemetryProcessor (Bull queues)       *)
(***************************************************************************)
ProcCallers == {"tick", "destroy"}

IdleProc == [pc |-> "idle", trigger |-> ""]

\* the intake hands a valid sample to the queue of its stream
Enqueue(s, d) ==
    /\ delivered < MaxDeliveries
    /\ delivered' = delivered + 1
    /\ accepted' = [accepted EXCEPT ![s] = @ + 1]
    /\ queue' = [queue EXCEPT ![s] = Append(@, [id |-> delivered + 1, data |-> d])]
    /\ UNCHANGED <<queueFrame, dbVars, handlerReturn, isProcessing, lastProcessTime,
                   processingTimer, tickPc, proc, dateNow>>

\* the interval callback starts: `if (this.isProcessing) return`, then it
\* awaits getWaitingCount()
TimerFires(s) ==
    /\ processingTimer[s]
    /\ tickPc[s] = "idle"
    /\ ~isProcessing[s]
    /\ tickPc' = [tickPc EXCEPT ![s] = "count"]
    /\ UNCHANGED <<queueFrame, dbVars, intakeVars, queue, isProcessing, lastProcessTime,
                   processingTimer, proc, dateNow>>

\* (the size trigger waits for more than BATCH_SIZE jobs)
Trigger_OffByOne(waitingCount, timeSinceLastProcess) ==
    IF waitingCount > BATCH_SIZE THEN "size"
    ELSE IF waitingCount > 0 /\ timeSinceLastProcess >= FALLBACK_INTERVAL_MS THEN "time"
    ELSE "none"

\* (the fallback trigger waits for more than FALLBACK_INTERVAL_MS)
Trigger_LateFallback(waitingCount, timeSinceLastProcess) ==
    IF waitingCount >= BATCH_SIZE THEN "size"
    ELSE IF waitingCount > 0 /\ timeSinceLastProcess > FALLBACK_INTERVAL_MS THEN "time"
    ELSE "none"

\* which trigger, if any, the periodic check takes
Trigger(waitingCount, timeSinceLastProcess) ==
    IF waitingCount >= BATCH_SIZE THEN "size"
    ELSE IF waitingCount > 0 /\ timeSinceLastProcess >= FALLBACK_INTERVAL_MS THEN "time"
    ELSE "none"

\* processBatch() up to `await this.queue.getJobs(...)`
ProcessBatchStart(s, caller, trigger) ==
    IF isProcessing[s]
       THEN UNCHANGED <<isProcessing, proc>>
       ELSE /\ isProcessing' = [isProcessing EXCEPT ![s] = TRUE]
            /\ proc' = [proc EXCEPT ![s][caller] = [pc |-> "getJobs", trigger |-> trigger]]

\* the interval callback after getWaitingCount(): the two triggers
TimerCheck(s) ==
    LET waitingCount == Len(queue[s])
        timeSinceLastProcess == dateNow - lastProcessTime[s]
        trigger == Trigger(waitingCount, timeSinceLastProcess)
    IN  /\ tickPc[s] = "count"
        /\ proc[s]["tick"].pc = "idle"
        /\ tickPc' = [tickPc EXCEPT ![s] = "idle"]
        /\ IF trigger = "none"
              THEN UNCHANGED <<isProcessing, proc>>
              ELSE ProcessBatchStart(s, "tick", trigger)
        /\ UNCHANGED <<queueFrame, dbVars, intakeVars, queue, lastProcessTime,
                       processingTimer, dateNow>>

\* getJobs(['waiting', 'active'], 0, BATCH_SIZE - 1)
GetJobsRange(jobs) == SubSeq(jobs, 1, Min(BATCH_SIZE, Len(jobs)))

\* processBatch() after getJobs: nothing to do, or hand the batch to the writer
GetJobs(s, caller) ==
    LET jobs == GetJobsRange(queue[s])
        batch == [k \in 1..Len(jobs) |-> jobs[k].data]
    IN  /\ proc[s][caller].pc = "getJobs"
        /\ IF Len(jobs) = 0
              THEN /\ isProcessing' = [isProcessing EXCEPT ![s] = FALSE]
                   /\ proc' = [proc EXCEPT ![s][caller] = IdleProc]
                   /\ UNCHANGED tx
              ELSE /\ FreeSlots # {}
                   /\ tx' = [tx EXCEPT ![LowestFree(FreeSlots)] =
                                StartedTx(caller, s, batch,
                                          {jobs[k].id : k \in 1..Len(jobs)})]
                   /\ proc' = [proc EXCEPT ![s][caller].pc = "ingest"]
                   /\ UNCHANGED isProcessing
        /\ UNCHANGED <<queueFrame, device_state, telemetry, intakeVars, queue,
                       lastProcessTime, processingTimer, tickPc, dateNow>>

\* (isProcessing is cleared at the end of the try block, not in a finally)
BatchEnd_FlagStaysOnError(i) ==
    LET s == tx[i].stream
        caller == tx[i].owner
    IN  /\ tx[i].owner \in ProcCallers
        /\ tx[i].st \in {"committed", "failed"}
        /\ IF tx[i].st = "committed"
              THEN /\ queue' = [queue EXCEPT ![s] =
                                   SelectSeq(@, LAMBDA j : j.id \notin tx[i].jobs)]
                   /\ lastProcessTime' = [lastProcessTime EXCEPT ![s] = dateNow]
                   /\ isProcessing' = [isProcessing EXCEPT ![s] = FALSE]
              ELSE UNCHANGED <<queue, lastProcessTime, isProcessing>>
        /\ proc' = [proc EXCEPT ![s][caller] = IdleProc]
        /\ tx' = [tx EXCEPT ![i] = IdleTx]
        /\ UNCHANGED <<queueFrame, device_state, telemetry, intakeVars,
                       processingTimer, tickPc, dateNow>>

\* processBatch() after the writer call: remove the jobs and note the time,
\* or log the error; finally isProcessing = false
BatchEnd(i) ==
    LET s == tx[i].stream
        caller == tx[i].owner
    IN  /\ tx[i].owner \in ProcCallers
        /\ tx[i].st \in {"committed", "failed"}
        /\ IF tx[i].st = "committed"
              THEN /\ queue' = [queue EXCEPT ![s] =
                                   SelectSeq(@, LAMBDA j : j.id \notin tx[i].jobs)]
                   /\ lastProcessTime' = [lastProcessTime EXCEPT ![s] = dateNow]
              ELSE UNCHANGED <<queue, lastProcessTime>>
        /\ isProcessing' = [isProcessing EXCEPT ![s] = FALSE]
        /\ proc' = [proc EXCEPT ![s][caller] = IdleProc]
        /\ tx' = [tx EXCEPT ![i] = IdleTx]
        /\ UNCHANGED <<queueFrame, device_state, telemetry, intakeVars,
                       processingTimer, tickPc, dateNow>>

\* MeterTelemetryProcessor.onModuleDestroy: clearInterval, await processBatch()
ProcessorOnModuleDestroy(s) ==
    /\ processingTimer[s]
    /\ processingTimer' = [processingTimer EXCEPT ![s] = FALSE]
    /\ ProcessBatchStart(s, "destroy", "destroy")
    /\ UNCHANGED <<queueFrame, dbVars, intakeVars, queue, lastProcessTime, tickPc, dateNow>>

\* time passes
TimePasses ==
    /\ dateNow + TimeStep <= MaxDateNow
    /\ dateNow' = dateNow + TimeStep
    /\ UNCHANGED <<queueFrame, dbVars, intakeVars, queue, isProcessing, lastProcessTime,
                   processingTimer, tickPc, proc>>

QueueInit ==
    /\ queue = [s \in Streams |-> <<>>]
    /\ isProcessing = [s \in Streams |-> FALSE]
    /\ lastProcessTime = [s \in Streams |-> 0]
    /\ processingTimer = [s \in Streams |-> TRUE]
    /\ tickPc = [s \in Streams |-> "idle"]
    /\ proc = [s \in Streams |-> [c \in ProcCallers |-> IdleProc]]
    /\ dateNow = 0

(***************************************************************************)
(* AnalyticsService.getVehiclePerformance                                  *)
(***************************************************************************)
\* the texts of the performance query in the repository: the join on sessions
\* that overlap the window, and the join on sessions with is_active = TRUE
QueryTexts == {"overlap", "is_active"}

\* the WHERE clause of the meter_data CTE on a session row vm
SessionMatches(text, vm, vehicleId, startTime, endTime) ==
    /\ vm.vehicle_id = vehicleId
    /\ IF text = "overlap"
          THEN /\ vm.mapped_at <= endTime
               /\ (vm.unmapped_at = NULL \/ vm.unmapped_at >= startTime)
          ELSE vm.is_active

\* meter_data: the meter_telemetry rows (by position) the join selects
MeterData(text, vehicleId, startTime, endTime) ==
    {k \in 1..Len(meter_telemetry) :
        /\ meter_telemetry[k].recorded_at >= startTime
        /\ meter_telemetry[k].recorded_at <= endTime
        /\ \E vm \in vehicle_meter_mapping :
              /\ vm.meter_id = meter_telemetry[k].meter_id
              /\ SessionMatches(text, vm, vehicleId, startTime, endTime)}

\* vehicle_data: the vehicle_telemetry rows (by position) of the vehicle in the window
VehicleData(vehicleId, startTime, endTime) ==
    {k \in 1..Len(vehicle_telemetry) :
        /\ vehicle_telemetry[k].vehicle_id = vehicleId
        /\ vehicle_telemetry[k].recorded_at >= startTime
        /\ vehicle_telemetry[k].recorded_at <= endTime}

MaxOf(S) == CHOOSE x \in S : \A y \in S : y <= x
MinOf(S) == CHOOSE x \in S : \A y \in S : x <= y

\* SUM over the rows at positions K of a history table
RECURSIVE SumOf(_, _, _)
SumOf(history, column, K) ==
    IF K = {} THEN 0
    ELSE LET k == CHOOSE x \in K : TRUE
         IN  history[k][column] + SumOf(history, column, K \ {k})

\* the aggregate of a query text over the rows at positions K; NULL on no rows
\* (MAX - MIN in the overlap text, SUM in the is_active text)
Aggregate(text, history, column, K) ==
    IF K = {} THEN NULL
    ELSE IF text = "overlap"
            THEN MaxOf({history[k][column] : k \in K}) - MinOf({history[k][column] : k \in K})
            ELSE SumOf(history, column, K)

\* (COALESCE and `|| 0` left out: no rows gives NULL)
Coalesce_Missing(x) == x

\* COALESCE(x, 0); parseFloat(x) || 0
Coalesce(x) == IF x = NULL THEN 0 ELSE x

\* a JavaScript number, and a string holding the decimal text of a number
JsNumber(n) == [type |-> "number", value |-> n]
JsString(n) == [type |-> "string", value |-> n]

\* the column COUNT(*) AS dc_count as result.rows[0] holds it: COUNT is a
\* bigint, which the pg driver hands over as a string (the code reads it
\* with parseInt)
PgBigint(n) == JsString(n)

\* a === b: equal types and equal values
StrictEquals(a, b) == a.type = b.type /\ a.value = b.value

\* parseInt(x)
ParseInt(x) == x.value

\* (the ratio without the totalAc > 0 guard)
EfficiencyRatio_Unguarded(totalDc, totalAc) == [num |-> totalDc, den |-> totalAc]

\* totalAc > 0 ? totalDc / totalAc : 0, as a fraction
EfficiencyRatio(totalDc, totalAc) ==
    IF totalAc > 0 THEN [num |-> totalDc, den |-> totalAc] ELSE [num |-> 0, den |-> 1]

NoMetrics ==
    [status |-> "none", vehicleId |-> "", text |-> "", meterRows |-> {},
     totalAcConsumption |-> 0, totalDcDelivery |-> 0,
     efficiencyRatio |-> [num |-> 0, den |-> 1], dataPoints |-> 0]

\* getVehiclePerformance(vehicleId), run with one of the query texts
GetVehiclePerformance(vehicleId, text) ==
    LET endTime == now
        startTime == endTime - WindowLength
        meterRows == MeterData(text, vehicleId, startTime, endTime)
        vehicleRows == VehicleData(vehicleId, startTime, endTime)
        total_ac == Coalesce(Aggregate(text, meter_telemetry, "kwh_consumed_ac", meterRows))
        total_dc == Aggregate(text, vehicle_telemetry, "kwh_delivered_dc", vehicleRows)
        dc_count == PgBigint(Cardinality(vehicleRows))
        totalAc == Coalesce(total_ac)
        totalDc == Coalesce(total_dc)
    IN  /\ metrics' =
              IF StrictEquals(dc_count, JsNumber(0))
                 THEN [NoMetrics EXCEPT !.status = "not_found", !.vehicleId = vehicleId,
                                        !.text = text]
                 ELSE [status |-> "ok", vehicleId |-> vehicleId, text |-> text,
                       meterRows |-> meterRows,
                       totalAcConsumption |-> totalAc,
                       totalDcDelivery |-> totalDc,
                       efficiencyRatio |-> EfficiencyRatio(totalDc, totalAc),
                       dataPoints |-> ParseInt(dc_count)]
        /\ UNCHANGED <<sessionVars, dbVars, bufferVars, intakeVars, queueVars, vehicleStates>>

\* FROM vehicle_state vs
\* LEFT JOIN vehicle_meter_mapping vmm ON vs.vehicle_id = vmm.vehicle_id AND vmm.is_active = TRUE
\* LEFT JOIN meter_state ms ON vmm.meter_id = ms.meter_id
\* : one joined row per vehicle row and matching session row, one with no
\* session and no meter columns for a vehicle row without a match
JoinedRows ==
    UNION {LET active == ActiveRows(vehicle_meter_mapping, vs.vehicle_id)
           IN  IF active = {}
                  THEN {[vs |-> vs, vmm |-> {}, ms |-> {}]}
                  ELSE {[vs |-> vs, vmm |-> {m},
                         ms |-> {x \in meter_state : x.meter_id = m.meter_id}] : m \in active}
           : vs \in vehicle_state}

\* ORDER BY vs.last_updated DESC LIMIT $1: the results the database may return
\* (rows with equal last_updated come in any order)
OrderByLimit(joined, limit) ==
    {rows \in [1..Min(limit, Cardinality(joined)) -> joined] :
        /\ \A j, k \in DOMAIN rows : j < k =>
              /\ rows[j] # rows[k]
              /\ rows[j].vs.last_updated >= rows[k].vs.last_updated
        /\ \A x \in joined \ {rows[k] : k \in DOMAIN rows} :
              \A k \in DOMAIN rows : x.vs.last_updated <= rows[k].vs.last_updated}

\* a column of the joined meter_state row, NULL when the left join found none
MeterColumn(row, column) ==
    IF row.ms = {} THEN NULL ELSE (CHOOSE x \in row.ms : TRUE)[column]

\* result.rows.map(row => ({...})): a NULL meter column becomes undefined
\* (NULL here as well)
VehicleStateOf(row) ==
    [vehicleId |-> row.vs.vehicle_id,
     soc |-> row.vs.soc,
     kwhDeliveredDc |-> row.vs.kwh_delivered_dc,
     batteryTemp |-> row.vs.battery_temp,
     lastUpdated |-> row.vs.last_updated,
     meterKwhConsumedAc |-> MeterColumn(row, "kwh_consumed_ac"),
     meterVoltage |-> MeterColumn(row, "voltage"),
     meterLastUpdated |-> MeterColumn(row, "last_updated")]

NoStates == [status |-> "none", limit |-> 0, states |-> <<>>]

\* getAllVehicleStates(limit)
GetAllVehicleStates(limit) ==
    /\ \E rows \in OrderByLimit(JoinedRows, limit) :
          vehicleStates' = [status |-> "ok", limit |-> limit,
                            states |-> [k \in DOMAIN rows |-> VehicleStateOf(rows[k])]]
    /\ UNCHANGED <<sessionVars, dbVars, bufferVars, intakeVars, queueVars, metrics>>

MetricsInit == metrics = NoMetrics /\ vehicleStates = NoStates

\* session rows as the session operations leave them: active and open, or
\* closed at or after the time they were mapped
SessionRowsOf(v, m) ==
    {SessionRow(v, m, 0),
     [SessionRow(v, m, 0) EXCEPT !.is_active = FALSE, !.unmapped_at = 0],
     [SessionRow(v, m, 0) EXCEPT !.is_active = FALSE, !.unmapped_at = AnalyticsNow - 1]}

\* the session tables of the analytics specification: at most one row per
\* key, for the keys (v1, m1), (v1, m2) and (v2, m1)
SessionTables ==
    {a \cup b \cup c :
        a \in {{}} \cup {{r} : r \in SessionRowsOf("v1", "m1")},
        b \in {{}} \cup {{r} : r \in SessionRowsOf("v1", "m2")},
        c \in {{}} \cup {{r} : r \in SessionRowsOf("v2", "m1")}}

\* history rows recorded before the window (at 0) and inside it
MeterHistoryRows ==
    {[meter_id |-> m, kwh_consumed_ac |-> k, voltage |-> 230, recorded_at |-> t] :
        m \in Meters, k \in KwhValues, t \in {0, AnalyticsNow - 1}}

MeterHistories == UNION {[1..n -> MeterHistoryRows] : n \in 0..MaxHistory}

VehicleHistoryRow(k, t) ==
    [vehicle_id |-> "v1", soc |-> 50, kwh_delivered_dc |-> k, battery_temp |-> 25,
     recorded_at |-> t]

VehicleHistories ==
    {<<>>,
     <<VehicleHistoryRow(10, 0)>>,
     <<VehicleHistoryRow(10, AnalyticsNow - 1)>>,
     <<VehicleHistoryRow(10, AnalyticsNow - 1), VehicleHistoryRow(20, AnalyticsNow)>>}

\* the database as earlier sessions and batches have left it
AnalyticsInit ==
    /\ vehicle_meter_mapping \in SessionTables
    /\ startCalls = [c \in Callers |-> IdleCall]
    /\ sessionResult = [op |-> "none", result |-> "ok", count |-> 0]
    /\ now = AnalyticsNow
    /\ device_state = [s \in Streams |-> {}]
    /\ \E mh \in MeterHistories, vh \in VehicleHistories :
          telemetry = [s \in Streams |-> IF s = "meter" THEN mh ELSE vh]
    /\ tx = [i \in TxIds |-> IdleTx]
    /\ BufferInit /\ IntakeInit /\ QueueInit /\ MetricsInit

\* hot-state tables as committed batches leave them: at most one row per
\* device, vehicles last updated at 1 or 2
VehicleStateTables ==
    {a \cup b :
        a \in {{}} \cup {{StateRow("vehicle", d)} :
                             d \in {x \in VehicleTelemetryDto :
                                       x.vehicleId = "v1" /\ x.kwhDeliveredDc = 10}},
        b \in {{}} \cup {{StateRow("vehicle", d)} :
                             d \in {x \in VehicleTelemetryDto :
                                       x.vehicleId = "v2" /\ x.kwhDeliveredDc = 20}}}

MeterStateTables ==
    {a \cup b :
        a \in {{}, {StateRow("meter", [meterId |-> "m1", kwhConsumedAc |-> 10,
                                        voltage |-> 230, timestamp |-> 1])}},
        b \in {{}, {StateRow("meter", [meterId |-> "m2", kwhConsumedAc |-> 20,
                                        voltage |-> 230, timestamp |-> 2])}}}

\* the database as earlier sessions and batches have left it, for the
\* hot-store read
StatesInit ==
    /\ vehicle_meter_mapping \in SessionTables
    /\ startCalls = [c \in Callers |-> IdleCall]
    /\ sessionResult = [op |-> "none", result |-> "ok", count |-> 0]
    /\ now = AnalyticsNow
    /\ \E vs \in VehicleStateTables, ms \in MeterStateTables :
          device_state = [s \in Streams |-> IF s = "meter" THEN ms ELSE vs]
    /\ telemetry = [s \in Streams |-> <<>>]
    /\ tx = [i \in TxIds |-> IdleTx]
    /\ BufferInit /\ IntakeInit /\ QueueInit /\ MetricsInit

(***************************************************************************)
(* Specifications                                                          *)
(***************************************************************************)
vars == <<sessionVars, dbVars, bufferVars, intakeVars, queueVars, analyticsVars>>

Init == SessionInit /\ DbInit /\ BufferInit /\ IntakeInit /\ QueueInit /\ MetricsInit

SessionNext ==
    \/ \E c \in Callers, v \in Vehicles, m \in Meters : StartSessionCheck(c, v, m)
    \/ \E c \in Callers : StartSessionInsert(c)
    \/ \E v \in Vehicles : EndSession(v)
    \/ \E vs \in VehicleIdLists, ms \in MeterIdLists : StartBatchSessions(vs, ms)
    \/ \E vs \in VehicleIdLists : EndBatchSessions(vs)
    \/ ClockTick

\* the session service on its own
SpecSession == Init /\ [][SessionNext]_vars

SessionSingleNext ==
    \/ \E c \in Callers, v \in Vehicles, m \in Meters : StartSessionCheck(c, v, m)
    \/ \E c \in Callers : StartSessionInsert(c)
    \/ \E v \in Vehicles : EndSession(v)
    \/ ClockTick

\* the session service called through startSession and endSession only
SpecSessionSingle == Init /\ [][SessionSingleNext]_vars

SessionBatchNext ==
    \/ \E vs \in VehicleIdLists, ms \in MeterIdLists : StartBatchSessions(vs, ms)
    \/ \E vs \in VehicleIdLists : EndBatchSessions(vs)
    \/ \E v \in Vehicles : EndSession(v)
    \/ ClockTick

\* the session service called through the batch operations and endSession
SpecSessionBatch == Init /\ [][SessionBatchNext]_vars

BufferNext ==
    \/ \E s \in Streams : \E d \in Payloads(s) :
          delivered < MaxDeliveries /\ AddData(s, d)
    \/ \E s \in Streams : \E d \in Payloads(s) :
          delivered < MaxDeliveries /\ AddDataShuttingDown(s, d)
    \/ \E s \in Streams : \E d \in Payloads(s) : HandleInvalidTelemetry(s, d)
    \/ \E i \in TxIds : DirectEnd(i)
    \/ FlushTimerFires
    \/ FlushEnd
    \/ \E i \in TxIds : OrphanEnd(i)
    \/ BufferOnModuleDestroy
    \/ \E i \in TxIds : WriterBegin(i)
    \/ \E i \in TxIds : WriterUpsert(i)
    \/ \E i \in TxIds : WriterInsert(i)
    \/ \E i \in TxIds : WriterCommit(i)
    \/ \E i \in TxIds : WriterFails(i)

\* MqttController -> TelemetryBufferService -> IngestionService
SpecBuffer == Init /\ [][BufferNext]_vars

\* the same, in a process that may die and be restarted
SpecCrash == Init /\ [][BufferNext \/ Crash]_vars

BufferLoadNext ==
    \/ \E s \in Streams : \E d \in DeliveredDtos(s) : delivered < MaxLoad /\ AddData(s, d)
    \/ \E s \in Streams : \E d \in DeliveredDtos(s) :
          delivered < MaxLoad /\ AddDataShuttingDown(s, d)
    \/ \E i \in TxIds : DirectEnd(i)
    \/ FlushTimerFires
    \/ FlushEnd
    \/ \E i \in TxIds : OrphanEnd(i)
    \/ BufferOnModuleDestroy
    \/ \E i \in TxIds : WriterBegin(i)
    \/ \E i \in TxIds : WriterUpsert(i)
    \/ \E i \in TxIds : WriterInsert(i)
    \/ \E i \in TxIds : WriterCommit(i)
    \/ \E i \in TxIds : WriterFails(i)

\* the buffer service under a longer run of deliveries than SpecBuffer allows
SpecBufferLoad == Init /\ [][BufferLoadNext]_vars

QueueNext ==
    \/ \E s \in Streams : \E d \in DeliveredDtos(s) : Enqueue(s, d)
    \/ \E s \in Streams : TimerFires(s)
    \/ \E s \in Streams : TimerCheck(s)
    \/ \E s \in Streams, c \in ProcCallers : GetJobs(s, c)
    \/ \E i \in TxIds : BatchEnd(i)
    \/ \E s \in Streams : ProcessorOnModuleDestroy(s)
    \/ TimePasses
    \/ \E i \in TxIds : WriterBegin(i)
    \/ \E i \in TxIds : WriterUpsert(i)
    \/ \E i \in TxIds : WriterInsert(i)
    \/ \E i \in TxIds : WriterCommit(i)
    \/ \E i \in TxIds : WriterFails(i)

\* intake -> Bull queue -> MeterTelemetryProcessor / VehicleTelemetryProcessor
\* -> IngestionService
SpecQueue == Init /\ [][QueueNext]_vars

\* the event loop runs every callback that is ready: the interval fires while
\* it is armed, an await whose promise has settled resumes, and a statement
\* the database has accepted completes unless it fails
QueueFairness ==
    /\ \A s \in Streams : WF_vars(TimerFires(s)) /\ WF_vars(TimerCheck(s))
    /\ \A s \in Streams, c \in ProcCallers : WF_vars(GetJobs(s, c))
    /\ \A i \in TxIds : WF_vars(BatchEnd(i))
    /\ \A i \in TxIds : WF_vars(WriterBegin(i) \/ WriterUpsert(i)
                                    \/ WriterInsert(i) \/ WriterCommit(i))

\* the queue pipeline in a process that keeps running
SpecQueueFair == SpecQueue /\ QueueFairness

\* the other queue has taken no job: the deliveries of one run all go to one
\* of the two queues
OnlyLoadedQueue(s) == \A o \in Streams \ {s} : accepted[o] = 0

OneQueueNext ==
    \/ \E s \in Streams : \E d \in DeliveredDtos(s) : OnlyLoadedQueue(s) /\ Enqueue(s, d)
    \/ \E s \in Streams : TimerFires(s)
    \/ \E s \in Streams : TimerCheck(s)
    \/ \E s \in Streams, c \in ProcCallers : GetJobs(s, c)
    \/ \E i \in TxIds : BatchEnd(i)
    \/ \E s \in Streams : ProcessorOnModuleDestroy(s)
    \/ TimePasses
    \/ \E i \in TxIds : WriterBegin(i)
    \/ \E i \in TxIds : WriterUpsert(i)
    \/ \E i \in TxIds : WriterInsert(i)
    \/ \E i \in TxIds : WriterCommit(i)
    \/ \E i \in TxIds : WriterFails(i)

\* both processors in a process that keeps running while the clock moves on,
\* with the load of a run on one queue
SpecOneQueueFair ==
    Init /\ [][OneQueueNext]_vars /\ QueueFairness /\ WF_vars(TimePasses)

AnalyticsNext ==
    \E vehicleId \in Vehicles, text \in QueryTexts : GetVehiclePerformance(vehicleId, text)

\* the performance query over a database filled earlier
SpecAnalytics == AnalyticsInit /\ [][AnalyticsNext]_vars

\* the session table as earlier session operations have left it, beside hot
\* tables filled by earlier batches
SessionReadInit ==
    /\ vehicle_meter_mapping \in SessionTables
    /\ startCalls = [c \in Callers |-> IdleCall]
    /\ sessionResult = [op |-> "none", result |-> "ok", count |-> 0]
    /\ now \in {AnalyticsNow - 1, AnalyticsNow}
    /\ \E vs \in VehicleStateTables, ms \in MeterStateTables :
          device_state = [s \in Streams |-> IF s = "meter" THEN ms ELSE vs]
    /\ telemetry = [s \in Streams |-> <<>>]
    /\ tx = [i \in TxIds |-> IdleTx]
    /\ BufferInit /\ IntakeInit /\ QueueInit /\ MetricsInit

SessionReadNext ==
    \E vehicleId \in Vehicles : GetActiveSession(vehicleId)

\* the session lookup over a database filled earlier
SpecSessionRead == SessionReadInit /\ [][SessionReadNext]_vars

StatesNext ==
    \E limit \in 1..MaxLimit : GetAllVehicleStates(limit)

\* the hot-store read over a database filled earlier
SpecStates == StatesInit /\ [][StatesNext]_vars

WriterNext ==
    \/ \E s \in Streams : \E dataArray \in Batches(s) : IngestDataBatch(s, dataArray)
    \/ \E s \in Streams : \E dataArray \in Batches(s) : IngestDataBatchNoDedup(s, dataArray)
    \/ \E s \in Streams : \E data \in WriterDtos(s) : IngestData(s, data)
    \/ \E i \in TxIds : IngestReturns(i)
    \/ \E i \in TxIds : WriterBegin(i)
    \/ \E i \in TxIds : WriterUpsert(i)
    \/ \E i \in TxIds : WriterInsert(i)
    \/ \E i \in TxIds : WriterCommit(i)
    \/ \E i \in TxIds : WriterFails(i)

\* IngestionService called with arbitrary samples and batches
SpecWriter == Init /\ [][WriterNext]_vars

(***************************************************************************)
(* Properties                                                              *)
(***************************************************************************)
Range(seq) == {seq[k] : k \in 1..Len(seq)}

\* the sample of device id in dataArray with the largest recorded timestamp,
\* the last one among equal timestamps
LatestOf(s, dataArray, id) ==
    dataArray[CHOOSE i \in 1..Len(dataArray) :
                /\ DeviceId(s, dataArray[i]) = id
                /\ \A j \in 1..Len(dataArray) :
                      DeviceId(s, dataArray[j]) = id =>
                         \/ dataArray[j].timestamp < dataArray[i].timestamp
                         \/ dataArray[j].timestamp = dataArray[i].timestamp /\ j <= i]

\* no writer call and no batch is in progress
Quiescent ==
    /\ ~isFlushing
    /\ \A i \in TxIds : tx[i].st = "idle"
    /\ \A s \in Streams : ~isProcessing[s]

\* a step that commits the transaction of slot i
Commits(i) == tx[i].st = "inserted" /\ tx'[i].st = "committed"

\* C1: every vehicle id has at most one vehicle_meter_mapping row with
\* is_active = TRUE, whatever session operations have run or are running.
C1_AtMostOneActivePerVehicle ==
    \A v \in Vehicles : Cardinality(ActiveRows(vehicle_meter_mapping, v)) <= 1

\* C2: once every batch has ended, the history table of a stream holds as many
\* rows as samples were accepted for it, apart from the samples still waiting
\* in the buffer or the queue: none is missing, none is written twice.
C2_HistoryCountEqualsAccepted ==
    Quiescent =>
        \A s \in Streams :
            Len(telemetry[s]) + Len(buffer[s]) + Len(queue[s]) = accepted[s]

\* C3: the tables of a stream change only in the commit step of a writer
\* call, and that step applies the call's upsert and its history append
\* together; a step in which a call fails changes neither table.
C3_DualWriteAtomic ==
    [][/\ \A s \in Streams :
            (device_state'[s] # device_state[s] \/ telemetry'[s] # telemetry[s]) =>
               \E i \in TxIds :
                  /\ Commits(i)
                  /\ tx[i].stream = s
                  /\ device_state'[s] = Upserted(s, device_state[s], tx[i].dataArray)
                  /\ telemetry'[s] = Appended(s, telemetry[s], tx[i].dataArray)
       /\ \A i \in TxIds :
            (tx[i].st # "failed" /\ tx'[i].st = "failed") =>
               (device_state' = device_state /\ telemetry' = telemetry)]_vars

\* a call has committed rows while another call, with a batch of two, has failed
C3_Witness ==
    \E i, j \in TxIds :
        /\ tx[i].st = "committed"
        /\ telemetry[tx[i].stream] # <<>>
        /\ device_state[tx[i].stream] # {}
        /\ tx[j].st = "failed"
        /\ Len(tx[j].dataArray) = 2

\* C4: at most one batch write of a stream is in flight at any time.
C4_SingleFlightPerStream ==
    \A s \in Streams :
        Cardinality({i \in TxIds : InFlight(i) /\ tx[i].stream = s}) <= 1

\* C5: when the transaction of a batch has failed, every sample of the batch
\* is still pending in the buffer or the queue of its stream.
C5_FailedBatchStillPending ==
    \A i \in TxIds :
        (tx[i].st = "failed" /\ tx[i].owner \in {"flush", "orphan", "tick", "destroy"}) =>
            \A k \in 1..Len(tx[i].dataArray) :
                \/ tx[i].dataArray[k] \in Range(buffer[tx[i].stream])
                \/ \E j \in Range(queue[tx[i].stream]) : j.data = tx[i].dataArray[k]

\* C6: the record a batch call upserts for a device id is that device's
\* sample with the largest recorded timestamp in the batch (the last one
\* among equal timestamps).
C6_UpsertsLargestTimestamp ==
    \A i \in TxIds :
        tx[i].st # "idle" =>
            \A id \in DeviceIds(tx[i].stream, tx[i].dataArray) :
                Deduped(tx[i].stream, tx[i].dataArray)[id]
                    = LatestOf(tx[i].stream, tx[i].dataArray, id)

\* C7: after a commit the hot row of every device of the committed batch
\* holds the values of the device's largest-timestamp sample in that batch,
\* and the rows of the other devices are unchanged.
C7_HotRowReflectsLastBatch ==
    [][\A i \in TxIds :
          Commits(i) =>
             LET s == tx[i].stream
                 dataArray == tx[i].dataArray
             IN  /\ \A id \in DeviceIds(s, dataArray) :
                       \A r \in device_state'[s] :
                          RowKey(s, r) = id =>
                             r = StateRow(s, LatestOf(s, dataArray, id))
                 /\ \A r \in device_state[s] :
                       RowKey(s, r) \notin DeviceIds(s, dataArray) =>
                          r \in device_state'[s]]_vars

\* C8: last_updated of a hot row is the maximum recorded timestamp among the
\* committed samples of its device.
C8_LastUpdatedIsMaxCommitted ==
    \A s \in Streams :
        \A r \in device_state[s] :
            /\ \E h \in Range(telemetry[s]) :
                  RowKey(s, h) = RowKey(s, r) /\ h.recorded_at = r.last_updated
            /\ \A h \in Range(telemetry[s]) :
                  RowKey(s, h) = RowKey(s, r) => h.recorded_at <= r.last_updated

\* C9: a process crash leaves every accepted sample either committed to the
\* history table or held in the durable queue.
C9_AcceptedSurvivesCrash ==
    [][Crash =>
          \A s \in Streams : accepted[s] <= Len(telemetry'[s]) + Len(queue'[s])]_vars

IsPrefix(seq1, seq2) ==
    Len(seq1) <= Len(seq2) /\ \A k \in 1..Len(seq1) : seq1[k] = seq2[k]

C12_AttemptsAreBounded ==
    \A id \in 1..MaxDeliveries :
        <>[](\A i \in TxIds :
                ~(tx[i].owner \in ProcCallers /\ tx[i].st = "failed" /\ id \in tx[i].jobs))

\* C13: when the hand-off of a valid sample to the batcher fails, the handler
\* does not end as if the delivery had been processed: its promise rejects, so
\* that the broker can deliver the sample again.
C13_FailedHandOffIsSurfaced ==
    [][\A i \in TxIds :
          (tx[i].owner = "direct" /\ tx[i].st = "failed" /\ tx'[i].st = "idle")
             => handlerReturn'.promise = "rejected"]_vars

\* a sample with every field present and within the bounds of the data model
WithinBounds(s, d) ==
    IF s = "meter"
       THEN /\ DOMAIN d = {"meterId", "kwhConsumedAc", "voltage", "timestamp"}
            /\ d.meterId \in Meters
            /\ d.kwhConsumedAc >= 0
            /\ d.voltage >= 0 /\ d.voltage <= 500
            /\ d.timestamp >= 1
       ELSE /\ DOMAIN d = {"vehicleId", "soc", "kwhDeliveredDc", "batteryTemp", "timestamp"}
            /\ d.vehicleId \in Vehicles
            /\ d.soc >= 0 /\ d.soc <= 100
            /\ d.kwhDeliveredDc >= 0
            /\ d.batteryTemp >= 0 - 40 /\ d.batteryTemp <= 80
            /\ d.timestamp >= 1

\* a hot-state or history row within the bounds of the data model
RowWithinBounds(s, r) ==
    IF s = "meter"
       THEN r.kwh_consumed_ac >= 0 /\ r.voltage >= 0 /\ r.voltage <= 500
       ELSE /\ r.soc >= 0 /\ r.soc <= 100
            /\ r.kwh_delivered_dc >= 0
            /\ r.battery_temp >= 0 - 40 /\ r.battery_temp <= 80

\* only samples within bounds are in a buffer, in a writer call or in a table
OnlyValidData ==
    \A s \in Streams :
        /\ \A d \in Range(buffer[s]) : WithinBounds(s, d)
        /\ \A i \in TxIds :
              tx[i].stream = s => \A d \in Range(tx[i].dataArray) : WithinBounds(s, d)
        /\ \A r \in device_state[s] : RowWithinBounds(s, r)
        /\ \A r \in Range(telemetry[s]) : RowWithinBounds(s, r)

\* C15: every sample in a buffer or a writer call and every row of a hot-state
\* or history table is within the bounds of the data model (soc 0..100,
\* voltage 0..500, battery temperature -40..80, energy >= 0), and a delivery
\* the validation rejects leaves buffers, writer calls, tables and the
\* accepted count unchanged.
C15_InvalidDeliveriesDropped ==
    [][/\ OnlyValidData /\ OnlyValidData'
       /\ (handlerReturn' = Invalid /\ handlerReturn # Invalid)
             => UNCHANGED <<buffer, isFlushing, dbVars, accepted, queue>>]_vars

\* an invalid delivery has just been dropped while valid samples are in the
\* history table and in the buffer
C15_Witness ==
    /\ handlerReturn = Invalid
    /\ \E s \in Streams : telemetry[s] # <<>> /\ buffer[s] # <<>>

\* onModuleDestroy of the processor of stream s has returned
DestroyReturned(s) == ~processingTimer[s] /\ proc[s]["destroy"].pc = "idle"

\* C14: once onModuleDestroy of a processor has returned, no batch of its
\* stream is still in flight, and the jobs of a batch that is not committed
\* are in the queue.
C14_DestroyWaitsForBatch ==
    \A s \in Streams :
        \A i \in TxIds :
            (tx[i].stream = s /\ tx[i].owner \in ProcCallers) =>
                /\ DestroyReturned(s) => ~InFlight(i)
                /\ tx[i].st # "committed" =>
                      tx[i].jobs \subseteq {j.id : j \in Range(queue[s])}

\* C16: startSession for a vehicle that has an active session ends with the
\* conflict error at its check: the table is unchanged and no INSERT follows.
C16_StartWhileActiveConflicts ==
    [][\A c \in Callers, v \in Vehicles, m \in Meters :
          (/\ startCalls[c].pc = "idle"
           /\ ActiveRows(vehicle_meter_mapping, v) # {}
           /\ StartSessionCheck(c, v, m))
             => /\ sessionResult' = [op |-> "startSession", result |-> "conflict", count |-> 0]
                /\ vehicle_meter_mapping' = vehicle_meter_mapping
                /\ startCalls'[c].pc = "idle"]_vars

\* a start was refused with conflict while the vehicle's session is active
C16_Witness ==
    /\ sessionResult = [op |-> "startSession", result |-> "conflict", count |-> 0]
    /\ \E v \in Vehicles : ActiveRows(vehicle_meter_mapping, v) # {}
    /\ \A c \in Callers : startCalls[c].pc = "idle"

\* C17: when startSession(v, m) runs its INSERT while v has no active session,
\* the call succeeds and v has exactly one active row afterwards, the row
\* (v, m) with mapped_at = now; closed rows in the table make no difference.
C17_StartWithoutActiveSucceeds ==
    [][\A c \in Callers :
          (StartSessionInsert(c)
             /\ ActiveRows(vehicle_meter_mapping, startCalls[c].vehicleId) = {})
             => /\ sessionResult'.result = "ok"
                /\ ActiveRows(vehicle_meter_mapping', startCalls[c].vehicleId)
                      = {SessionRow(startCalls[c].vehicleId, startCalls[c].meterId, now)}]_vars

\* C18: endSession(v) with an active row of v closes v's active rows with
\* unmapped_at = now and changes no row of another vehicle; without an active
\* row of v it ends with not-found and changes no row.
C18_EndSessionClosesOnlyOwnRow ==
    [][\A v \in Vehicles :
          (sessionResult'.op = "endSession" /\ now' = now /\ EndSession(v)) =>
             IF ActiveRows(vehicle_meter_mapping, v) # {}
                THEN /\ sessionResult'.result = "ok"
                     /\ ActiveRows(vehicle_meter_mapping', v) = {}
                     /\ \A r \in ActiveRows(vehicle_meter_mapping, v) :
                           [r EXCEPT !.is_active = FALSE, !.unmapped_at = now]
                              \in vehicle_meter_mapping'
                     /\ \A r \in vehicle_meter_mapping \cup vehicle_meter_mapping' :
                           (r.vehicle_id # v \/ ~r.is_active) =>
                              (r \in vehicle_meter_mapping => r \in vehicle_meter_mapping')
                     /\ Cardinality(vehicle_meter_mapping')
                           = Cardinality(vehicle_meter_mapping)
                ELSE /\ sessionResult'.result = "not_found"
                     /\ vehicle_meter_mapping' = vehicle_meter_mapping]_vars

\* a session has been ended while another vehicle's session stays active
C18_Witness ==
    /\ sessionResult.op = "endSession" /\ sessionResult.result = "ok"
    /\ \E r \in vehicle_meter_mapping : ~r.is_active /\ r.unmapped_at = now
    /\ \E r \in vehicle_meter_mapping : r.is_active

\* C19: endBatchSessions(ids) always succeeds; it closes every active row of
\* the listed vehicles with unmapped_at = now, returns the number of rows it
\* closed (0 when there was none) and changes no row of an unlisted vehicle.
C19_EndBatchBestEffort ==
    [][\A ids \in VehicleIdLists :
          (sessionResult'.op = "endBatchSessions" /\ now' = now /\ EndBatchSessions(ids)) =>
             LET listed == Range(ids)
                 open == {r \in vehicle_meter_mapping : r.vehicle_id \in listed /\ r.is_active}
             IN  /\ sessionResult' = [op |-> "endBatchSessions", result |-> "ok",
                                      count |-> Cardinality(open)]
                 /\ \A r \in vehicle_meter_mapping' : r.vehicle_id \in listed => ~r.is_active
                 /\ \A r \in open :
                       [r EXCEPT !.is_active = FALSE, !.unmapped_at = now]
                          \in vehicle_meter_mapping'
                 /\ \A r \in vehicle_meter_mapping :
                       r \notin open => r \in vehicle_meter_mapping'
                 /\ Cardinality(vehicle_meter_mapping')
                       = Cardinality(vehicle_meter_mapping)]_vars

\* a bulk end closed one session and left the session of an unlisted vehicle active
C19_Witness ==
    /\ sessionResult = [op |-> "endBatchSessions", result |-> "ok", count |-> 1]
    /\ \E r \in vehicle_meter_mapping : ~r.is_active /\ r.unmapped_at = now
    /\ \E r \in vehicle_meter_mapping : r.is_active

\* C20: the meter history rows that count toward totalAcConsumption in a
\* result for vehicle v are exactly the rows recorded inside the window whose
\* meter has a session row of v with mapped_at <= window end and unmapped_at
\* null or >= window start, whether or not that session is still active.
C20_SessionOverlapCorrelation ==
    metrics.status = "ok" =>
        metrics.meterRows =
            {k \in 1..Len(meter_telemetry) :
                /\ meter_telemetry[k].recorded_at >= now - WindowLength
                /\ meter_telemetry[k].recorded_at <= now
                /\ \E vm \in vehicle_meter_mapping :
                      /\ vm.vehicle_id = metrics.vehicleId
                      /\ vm.meter_id = meter_telemetry[k].meter_id
                      /\ vm.mapped_at <= now
                      /\ (vm.unmapped_at = NULL \/ vm.unmapped_at >= now - WindowLength)}

\* the positions of the vehicle history rows of v inside the query window
DcRowsInWindow(v) ==
    {k \in 1..Len(vehicle_telemetry) :
        /\ vehicle_telemetry[k].vehicle_id = v
        /\ vehicle_telemetry[k].recorded_at >= now - WindowLength
        /\ vehicle_telemetry[k].recorded_at <= now}

\* C21: a getVehiclePerformance call for a vehicle with no history row inside
\* the window ends with not-found, never with a metrics object.
C21_NoDcRowsIsNotFound ==
    (metrics.status # "none" /\ DcRowsInWindow(metrics.vehicleId) = {})
        => metrics.status = "not_found"

\* the positions of the meter history rows inside the query window whose
\* meter has a session of v that overlaps the window
CorrelatedAcRows(v) ==
    {k \in 1..Len(meter_telemetry) :
        /\ meter_telemetry[k].recorded_at >= now - WindowLength
        /\ meter_telemetry[k].recorded_at <= now
        /\ \E vm \in vehicle_meter_mapping :
              /\ vm.vehicle_id = v
              /\ vm.meter_id = meter_telemetry[k].meter_id
              /\ vm.mapped_at <= now
              /\ (vm.unmapped_at = NULL \/ vm.unmapped_at >= now - WindowLength)}

\* C22: a call for a vehicle that has history rows in the window but no
\* correlated meter row there succeeds with totalAcConsumption = 0 and
\* efficiencyRatio = 0.
C22_NoAcRowsGivesZero ==
    (/\ metrics.status # "none"
     /\ DcRowsInWindow(metrics.vehicleId) # {}
     /\ CorrelatedAcRows(metrics.vehicleId) = {})
        => /\ metrics.status = "ok"
           /\ metrics.totalAcConsumption = 0
           /\ metrics.efficiencyRatio.num = 0 /\ metrics.efficiencyRatio.den # 0

\* a call succeeded for a vehicle with DC rows and a session whose meter has
\* history rows, none of them inside the window
C22_Witness ==
    /\ metrics.status = "ok"
    /\ DcRowsInWindow(metrics.vehicleId) # {}
    /\ CorrelatedAcRows(metrics.vehicleId) = {}
    /\ \E vm \in vehicle_meter_mapping :
          /\ vm.vehicle_id = metrics.vehicleId /\ vm.is_active
          /\ \E k \in 1..Len(meter_telemetry) : meter_telemetry[k].meter_id = vm.meter_id

\* C23: in every result efficiencyRatio is totalDcDelivery / totalAcConsumption
\* when totalAcConsumption > 0 and 0 otherwise; its denominator is never 0,
\* and it is at most 1 when totalAcConsumption >= totalDcDelivery.
C23_EfficiencyRatioDefined ==
    metrics.status = "ok" =>
        /\ metrics.efficiencyRatio.den # 0
        /\ metrics.totalAcConsumption > 0 =>
              metrics.efficiencyRatio =
                 [num |-> metrics.totalDcDelivery, den |-> metrics.totalAcConsumption]
        /\ metrics.totalAcConsumption <= 0 => metrics.efficiencyRatio.num = 0
        /\ (metrics.totalAcConsumption >= metrics.totalDcDelivery
              /\ metrics.efficiencyRatio.den > 0)
              => metrics.efficiencyRatio.num <= metrics.efficiencyRatio.den

\* a result whose ratio is the quotient of two positive totals
C23_Witness ==
    /\ metrics.status = "ok"
    /\ metrics.totalDcDelivery > 0
    /\ metrics.totalAcConsumption > 0
    /\ metrics.efficiencyRatio.num = metrics.totalDcDelivery

\* C24: a result carries totalDcDelivery = max - min of kwh_delivered_dc over
\* the vehicle's rows in the window, totalAcConsumption = max - min of
\* kwh_consumed_ac over the meter rows the query correlated (0 without rows),
\* and dataPoints = the number of the vehicle's rows in the window.
C24_TotalsAreMaxMinusMin ==
    metrics.status = "ok" =>
        LET dc == {vehicle_telemetry[k].kwh_delivered_dc :
                      k \in DcRowsInWindow(metrics.vehicleId)}
            ac == {meter_telemetry[k].kwh_consumed_ac : k \in metrics.meterRows}
        IN  /\ metrics.totalDcDelivery = IF dc = {} THEN 0 ELSE MaxOf(dc) - MinOf(dc)
            /\ metrics.totalAcConsumption = IF ac = {} THEN 0 ELSE MaxOf(ac) - MinOf(ac)
            /\ metrics.dataPoints = Cardinality(DcRowsInWindow(metrics.vehicleId))

\* a writer call of stream s is in flight
StreamInFlight(s) == \E i \in TxIds : InFlight(i) /\ tx[i].stream = s

\* C25: a size trigger reached on one stream fires whatever the other stream
\* is doing: when a sample is buffered for a stream that has no write of its
\* own in flight and the buffer thereby reaches the size threshold, the step
\* starts a writer call with the buffered batch of that stream.
C25_StreamsShareNoState ==
    [][\A s \in Streams :
          (/\ ~isShuttingDown
           /\ accepted'[s] = accepted[s] + 1
           /\ Len(buffer[s]) + 1 >= MAX_BUFFER_SIZE
           /\ ~StreamInFlight(s))
             => \E i \in TxIds :
                   /\ tx[i].st = "idle"
                   /\ tx'[i].st = "connect"
                   /\ tx'[i].stream = s
                   /\ Len(tx'[i].dataArray) = Len(buffer[s]) + 1]_vars

\* C26: the commit of a batch leaves exactly one hot-state row for every
\* distinct device id of the batch, taken from a sample of that device in the
\* batch, leaves the rows of other devices alone, and appends one history row
\* per sample of the batch, in order, duplicates of a device included.
C26_OneUpsertPerIdAllHistory ==
    [][\A i \in TxIds :
          Commits(i) =>
             LET s == tx[i].stream
                 dataArray == tx[i].dataArray
                 k == Len(dataArray)
                 n == Len(telemetry[s])
             IN  /\ \A id \in DeviceIds(s, dataArray) :
                       /\ Cardinality({r \in device_state'[s] : RowKey(s, r) = id}) = 1
                       /\ \E j \in 1..k :
                             /\ DeviceId(s, dataArray[j]) = id
                             /\ StateRow(s, dataArray[j]) \in device_state'[s]
                 /\ {r \in device_state'[s] : RowKey(s, r) \notin DeviceIds(s, dataArray)}
                       = {r \in device_state[s] : RowKey(s, r) \notin DeviceIds(s, dataArray)}
                 /\ Len(telemetry'[s]) = n + k
                 /\ SubSeq(telemetry'[s], 1, n) = telemetry[s]
                 /\ \A j \in 1..k : telemetry'[s][n + j] = TelemetryRow(s, dataArray[j])]_vars

\* a committed batch of two samples of one device: one hot-state row of the
\* device and both samples in the history table
C26_Witness ==
    \E i \in TxIds :
        /\ tx[i].st = "committed"
        /\ Len(tx[i].dataArray) = 2
        /\ Cardinality(DeviceIds(tx[i].stream, tx[i].dataArray)) = 1
        /\ Cardinality(device_state[tx[i].stream]) = 1
        /\ Len(telemetry[tx[i].stream]) >= 2

\* C27: every batch handed to the writer holds at least one sample and at
\* most the batch size of the component that formed it (BATCH_SIZE for a
\* processor, MAX_BUFFER_SIZE for the buffer service).
C27_BatchSizeBounded ==
    \A i \in TxIds :
        tx[i].st # "idle" =>
            /\ Len(tx[i].dataArray) >= 1
            /\ Len(tx[i].dataArray) <=
                  (IF tx[i].owner \in ProcCallers THEN BATCH_SIZE ELSE MAX_BUFFER_SIZE)

\* the writer calls of stream s that hold a connection
Clients(s) == {i \in TxIds : tx[i].client /\ tx[i].stream = s}

\* C28: a writer call holds a connection only while it is inside its
\* transaction (none once it has committed or failed), and at any time the
\* writer calls of one stream hold at most one connection, so that the two
\* streams together hold at most two.
C28_ConnectionsBounded ==
    /\ \A i \in TxIds : tx[i].client => tx[i].st \in {"begun", "upserted", "inserted"}
    /\ \A s \in Streams : Cardinality(Clients(s)) <= 1
    /\ Cardinality(UNION {Clients(s) : s \in Streams}) <= 2

\* the vehicle_state rows a result may not leave out in favour of row r: those
\* updated later than r
UpdatedLater(r) == {x \in vehicle_state : x.last_updated > r.last_updated}

\* C29: getAllVehicleStates(N) returns at most N entries in descending order
\* of last_updated, no vehicle twice, each the vehicle_state row of one of the
\* N most recently updated vehicles, as many as there are up to N; an entry
\* carries the meter_state columns of the meter of the vehicle's active
\* session when that session and that row exist and no meter columns
\* otherwise; the call changes no table.
C29_AllVehicleStates ==
    [][vehicleStates' # vehicleStates =>
          LET N == vehicleStates'.limit
              states == vehicleStates'.states
          IN  /\ Len(states) = Min(N, Cardinality(vehicle_state))
              /\ \A j, k \in DOMAIN states : j < k =>
                    /\ states[j].lastUpdated >= states[k].lastUpdated
                    /\ states[j].vehicleId # states[k].vehicleId
              /\ \A k \in DOMAIN states :
                    \E r \in vehicle_state :
                       /\ r.vehicle_id = states[k].vehicleId
                       /\ r.last_updated = states[k].lastUpdated
                       /\ r.soc = states[k].soc
                       /\ r.kwh_delivered_dc = states[k].kwhDeliveredDc
                       /\ r.battery_temp = states[k].batteryTemp
                       /\ Cardinality(UpdatedLater(r)) < N
                       /\ LET meters == {x \in meter_state :
                                           \E m \in ActiveRows(vehicle_meter_mapping,
                                                               r.vehicle_id) :
                                              x.meter_id = m.meter_id}
                          IN  IF meters = {}
                                 THEN /\ states[k].meterKwhConsumedAc = NULL
                                      /\ states[k].meterVoltage = NULL
                                      /\ states[k].meterLastUpdated = NULL
                                 ELSE \E x \in meters :
                                         /\ states[k].meterKwhConsumedAc = x.kwh_consumed_ac
                                         /\ states[k].meterVoltage = x.voltage
                                         /\ states[k].meterLastUpdated = x.last_updated
              /\ UNCHANGED <<dbVars, sessionVars>>]_vars

\* the device ids with a row in the hot-state table of stream s
HotKeys(table, s) == {RowKey(s, r) : r \in table[s]}

\* the device ids with a committed sample of stream s
CommittedIds(history, s) == {RowKey(s, history[s][k]) : k \in 1..Len(history[s])}

\* C30: before and after every step, each hot-state table holds exactly one
\* row for every device id with a committed sample and no other row; a step
\* adds a row for a device exactly when it commits the device's first
\* sample, and no step removes the row of a device.
C30_OneHotRowPerDevice ==
    [][\A s \in Streams :
          /\ HotKeys(device_state, s) = CommittedIds(telemetry, s)
          /\ HotKeys(device_state', s) = CommittedIds(telemetry', s)
          /\ \A id \in HotKeys(device_state', s) :
                Cardinality({r \in device_state'[s] : RowKey(s, r) = id}) = 1
          /\ HotKeys(device_state, s) \subseteq HotKeys(device_state', s)
          /\ \A id \in HotKeys(device_state', s) \ HotKeys(device_state, s) :
                \E i \in TxIds :
                   /\ Commits(i)
                   /\ tx[i].stream = s
                   /\ id \in DeviceIds(s, tx[i].dataArray)]_vars

\* three committed meter samples, two of one meter with different readings
\* and one of another meter, and two rows in meter_state
C30_Witness ==
    /\ Len(meter_telemetry) = 3
    /\ \E j, k \in 1..3 :
          /\ meter_telemetry[j].meter_id = meter_telemetry[k].meter_id
          /\ meter_telemetry[j] # meter_telemetry[k]
    /\ Cardinality(CommittedIds(telemetry, "meter")) = 2
    /\ Cardinality(meter_state) = 2

\* C31: no step of the writers updates or deletes a history row: the history
\* table of each stream after a step starts with the rows, in the order and
\* with the field values, it held before the step.
C31_HistoryIsAppendOnly ==
    [][\A s \in Streams : IsPrefix(telemetry[s], telemetry'[s])]_vars

\* a call has committed samples of a device into a history table that held
\* other readings of that device before
C31_Witness ==
    \E i \in TxIds :
        LET s == tx[i].stream
            n == Len(telemetry[s]) - Len(tx[i].dataArray)
        IN  /\ tx[i].st = "committed"
            /\ n >= 1
            /\ \A k \in 1..Len(tx[i].dataArray) :
                  telemetry[s][n + k] = TelemetryRow(s, tx[i].dataArray[k])
            /\ \E j \in 1..n :
                  /\ RowKey(s, telemetry[s][j]) \in DeviceIds(s, tx[i].dataArray)
                  /\ \A k \in 1..Len(tx[i].dataArray) :
                        telemetry[s][j] # TelemetryRow(s, tx[i].dataArray[k])

\* C32: a getActiveSession(v) call returns null exactly when the session
\* table holds no active row of v, and otherwise the vehicle id, meter id and
\* mapped-at of an active row of v; what it may return is fixed by the
\* session table and v, whatever the other tables and the clock hold; the
\* call changes no session row.
C32_GetActiveSession ==
    [][sessionResult'.op = "getActiveSession" /\ sessionResult' # sessionResult =>
          LET v == sessionResult'.vehicleId
              active == {r \in vehicle_meter_mapping : r.vehicle_id = v /\ r.is_active}
          IN  /\ (sessionResult'.result = "null") = (active = {})
              /\ active = {} => sessionResult'.session = {}
              /\ active # {} =>
                    \E r \in active :
                       sessionResult'.session =
                          {[vehicleId |-> v, meterId |-> r.meter_id,
                            mappedAt |-> r.mapped_at]}
              /\ vehicle_meter_mapping' = vehicle_meter_mapping]_vars

\* a lookup has returned the active session of a vehicle that also has a
\* closed session, and a lookup of a vehicle with closed sessions only has
\* returned null
C32_Witness ==
    /\ sessionResult.op = "getActiveSession"
    /\ \E r \in vehicle_meter_mapping :
          r.vehicle_id = sessionResult.vehicleId /\ ~r.is_active
    /\ \/ /\ sessionResult.result = "ok"
          /\ \E r \in ActiveRows(vehicle_meter_mapping, sessionResult.vehicleId) :
                sessionResult.session = {ActiveSession(r)}
       \/ /\ sessionResult.result = "null"
          /\ ActiveRows(vehicle_meter_mapping, sessionResult.vehicleId) = {}

\* C33: of the startSession calls for one vehicle that overlap in time, at
\* most one succeeds: a call's INSERT succeeds only while the vehicle has no
\* active session, as if the existence check and the INSERT were one step.
\* (Where sessions are opened by startSession only, an active row found at a
\* call's INSERT was inserted after the call's check, by an overlapping call.)
C33_OverlappingStartsOneWins ==
    [][\A c \in Callers :
          (/\ startCalls[c].pc = "insert"
           /\ startCalls'[c].pc = "idle"
           /\ sessionResult'.result = "ok")
             => ActiveRows(vehicle_meter_mapping, startCalls[c].vehicleId) = {}]_vars

\* C34: of the endSession(v) calls that meet one active session of v, exactly
\* one succeeds: the call whose UPDATE runs while the row is active succeeds
\* and closes it with unmapped_at = now; a call whose UPDATE runs once the row
\* is closed fails with not-found and leaves every row, the closed row's
\* unmapped_at included, as it was.
C34_OverlappingEndsOneWins ==
    [][\A v \in Vehicles :
          (sessionResult'.op = "endSession" /\ now' = now /\ EndSession(v)) =>
             LET active == ActiveRows(vehicle_meter_mapping, v)
             IN  /\ Cardinality(active) = 1 =>
                       /\ sessionResult'.result = "ok"
                       /\ sessionResult'.count = 1
                       /\ vehicle_meter_mapping' =
                             (vehicle_meter_mapping \ active) \cup
                                {[r EXCEPT !.is_active = FALSE, !.unmapped_at = now] :
                                    r \in active}
                 /\ active = {} =>
                       /\ sessionResult'.result = "not_found"
                       /\ vehicle_meter_mapping' = vehicle_meter_mapping]_vars

\* the second of two endSession calls has failed with not-found after the
\* clock moved on, and the row the first one closed keeps its unmapped_at
C34_Witness ==
    /\ sessionResult = [op |-> "endSession", result |-> "not_found", count |-> 0]
    /\ now = 1
    /\ \E r \in vehicle_meter_mapping : ~r.is_active /\ r.unmapped_at = 0
    /\ \A r \in vehicle_meter_mapping : ~r.is_active

\* fewer than BATCH_SIZE jobs are waiting for stream s and less than
\* FALLBACK_INTERVAL_MS has passed since its last completed batch
NoTriggerDue(s) ==
    /\ Len(queue[s]) > 0
    /\ Len(queue[s]) < BATCH_SIZE
    /\ dateNow - lastProcessTime[s] < FALLBACK_INTERVAL_MS

\* C35: while between 1 and BATCH_SIZE - 1 samples are pending for a stream
\* and less than FALLBACK_INTERVAL_MS has passed since the stream's last
\* completed batch, no step starts a batch for it.
C35_NoBatchBeforeFallback ==
    [][\A s \in Streams :
          (~isProcessing[s] /\ isProcessing'[s]) => ~NoTriggerDue(s)]_vars

\* the batch of stream s a step passes from the buffer to the writer (empty
\* when the step starts no flush of s)
PassedToWriter(s) ==
    LET started == {i \in TxIds : /\ tx[i].st = "idle"
                                  /\ tx'[i].st = "connect"
                                  /\ tx'[i].owner = "flush"
                                  /\ tx'[i].stream = s}
    IN  IF started = {} THEN <<>> ELSE tx'[CHOOSE i \in started : TRUE].dataArray

\* the samples of stream s are handed on one by one: what a step passes to
\* the writer followed by what it leaves in the buffer is what the buffer held
\* before, with the sample the step added, if any, at the end
HandedOnOnce(s) ==
    LET after == PassedToWriter(s) \o buffer'[s]
    IN  IF ~isShuttingDown /\ accepted'[s] = accepted[s] + 1
           THEN /\ Len(after) = Len(buffer[s]) + 1
                /\ SubSeq(after, 1, Len(buffer[s])) = buffer[s]
           ELSE after = buffer[s]

\* C36: every sample added while the service is not shutting down is passed
\* to the writer in exactly one batch: no step drops a buffered sample or
\* passes it twice, a writer call keeps the batch it was given, and a sample
\* waiting in a buffer still has a flush to come (the flush timer is armed).
C36_EverySampleInOneBatch ==
    [][\A s \in Streams :
          /\ HandedOnOnce(s)
          /\ \A i \in TxIds :
                (tx[i].st # "idle" /\ tx'[i].st # "idle") =>
                   tx'[i].dataArray = tx[i].dataArray
          /\ buffer'[s] # <<>> => flushTimer']_vars

\* onModuleDestroy of the buffer service returns in the step that calls it:
\* its flush() takes one of the two early returns
DestroyReturnsAtOnce == isFlushing \/ \A s \in Streams : buffer[s] = <<>>

\* C37: when onModuleDestroy of the buffer service returns, in the step of
\* the call when its flush() returns early and otherwise in the step that ends
\* the flush it started, both buffers are empty and no flush is in flight.
C37_DestroyLeavesNothingBuffered ==
    [][/\ (~isShuttingDown /\ isShuttingDown' /\ DestroyReturnsAtOnce) =>
             /\ \A s \in Streams : buffer'[s] = <<>>
             /\ ~isFlushing'
       /\ (isShuttingDown /\ isFlushing /\ ~isFlushing') =>
             \A s \in Streams : buffer'[s] = <<>>]_vars

\* job id waits on the queue of stream s
InQueue(s, id) == \E k \in 1..Len(queue[s]) : queue[s][k].id = id

\* no writer call stands failed
NoFailure == \A i \in TxIds : tx[i].st # "failed"

\* the clock has reached its last instant and no trigger of stream s is due
\* at it: the batch the waiting jobs need lies after the last instant
BeyondClock(s) ==
    /\ dateNow + TimeStep > MaxDateNow
    /\ Trigger(Len(queue[s]), dateNow - lastProcessTime[s]) = "none"

NewSessions == vehicle_meter_mapping' \ vehicle_meter_mapping

\* C39: a call startBatchSessions(vehicleIds, meterIds) either adds exactly
\* one active row (vehicleIds[i], meterIds[i]) mapped now for each position i
\* up to the length of the shorter list, nothing for the surplus of the longer
\* list, touches no other row and returns that length; or it fails and the
\* table is as it was before the call.
C39_StartBatchSessionsAllOrNothing ==
    [][\A vs \in VehicleIdLists, ms \in MeterIdLists :
          StartBatchSessions(vs, ms) =>
             LET n == IF Len(vs) < Len(ms) THEN Len(vs) ELSE Len(ms)
             IN  \/ /\ sessionResult'.result = "ok"
                    /\ sessionResult'.count = n
                    /\ vehicle_meter_mapping \subseteq vehicle_meter_mapping'
                    /\ Cardinality(NewSessions) = n
                    /\ \A i \in 1..n : \E r \in NewSessions :
                          /\ r.vehicle_id = vs[i] /\ r.meter_id = ms[i]
                          /\ r.is_active /\ r.mapped_at = now /\ r.unmapped_at = NULL
                 \/ /\ sessionResult'.result # "ok"
                    /\ vehicle_meter_mapping' = vehicle_meter_mapping]_vars

\* a batch start has failed on a duplicate key while the table holds sessions
\* and some vehicle has none: nothing of the batch was kept
C39_Witness ==
    /\ sessionResult.op = "startBatchSessions"
    /\ sessionResult.result = "duplicate_key"
    /\ vehicle_meter_mapping # {}
    /\ \E v \in Vehicles : \A r \in vehicle_meter_mapping : r.vehicle_id # v

====
